---- MODULE Spec2Model ----
(***************************************************************************)
(* A model of interface-proxy: the client-side RunServer supervisor, the   *)
(* Proxy call protocol, the tagged-value codec on both sides and the       *)
(* server-side dispatcher (Server.run_command / handle_request).           *)
(*                                                                         *)
(* Python values are records with a kind field k; the kind is the name of  *)
(* the value's type (type(arg).__name__), except for instances of served   *)
(* classes, which have kind "object" and carry their class name.           *)
(***************************************************************************)
EXTENDS Integers, Sequences, FiniteSets, TLC

(***************************************************************************)
(* Bounds of the model.                                                    *)
(***************************************************************************)
\* nodes of a Python value drawn as a codec input (a list counts as a node)
MaxNodes == 3
\* ComplicatedObject instances the server heap may hold
MaxObjs == 2
\* RunServer instances that may be registered
MaxInst == 2
\* calls a client may make of the invoker an access gave it
MaxCalls == 2
\* constructions of RunServer on one object between a release, a crash or an
\* exit and the next
MaxAcquires == 3
\* references in the Reference Table from which on no client has a list of
\* references doubled
MaxRefs == 3

(***************************************************************************)
(* Python values.                                                          *)
(***************************************************************************)
PyNone == [k |-> "NoneType"]
PyBool(b) == [k |-> "bool", v |-> b]
PyInt(n) == [k |-> "int", v |-> n]
\* a float is kept as its number of halves: PyFloat(3) is 1.5
PyFloat(h) == [k |-> "float", v |-> h]
PyStr(s) == [k |-> "str", v |-> s]
PyList(xs) == [k |-> "list", v |-> xs]
PyTuple(xs) == [k |-> "tuple", v |-> xs]
\* a dict is the sequence of its items in insertion order
PyDict(items) == [k |-> "dict", v |-> items]
Item(key, val) == [key |-> key, val |-> val]
\* set(): a builtin container json cannot serialise
PySet == [k |-> "set"]
\* an instance of a served class, living at an address of the server heap
PyObj(cls, addr) == [k |-> "object", cls |-> cls, addr |-> addr]
\* a module-level function or a class of a served module
PyCallable(name) == [k |-> "function", v |-> name]

\* the outcome of evaluating a Python expression: a value or a raised exception
Ok(val) == [ok |-> TRUE, val |-> val]
Raise(exc) == [ok |-> FALSE, exc |-> exc]

\* the first raised exception of a sequence of outcomes, else the values
FirstBad(rs) == CHOOSE i \in 1..Len(rs) : ~rs[i].ok /\ \A j \in 1..(i - 1) : rs[j].ok
Collect(rs) ==
    IF \E i \in 1..Len(rs) : ~rs[i].ok
    THEN Raise(rs[FirstBad(rs)].exc)
    ELSE Ok([i \in 1..Len(rs) |-> rs[i].val])

\* type(arg).__name__
TypeName(arg) == IF arg.k = "object" THEN arg.cls ELSE arg.k

\* the names of the modelled types that are attributes of the builtins module
BuiltinNames == {"bool", "int", "float", "str", "list", "tuple", "dict", "set"}

\* hasattr(builtins, name)
HasBuiltin(name) == name \in BuiltinNames

\* d[key] on a dict: the value of the item with that key
DictHas(d, key) == \E i \in 1..Len(d.v) : d.v[i].key = key
DictGet(d, key) == d.v[CHOOSE i \in 1..Len(d.v) : d.v[i].key = key].val

\* arg[name] for a string name, on any Python value
Subscript(arg, name) ==
    IF arg.k = "dict"
    THEN IF DictHas(arg, PyStr(name)) THEN Ok(DictGet(arg, PyStr(name))) ELSE Raise("KeyError")
    ELSE Raise("TypeError")

\* bool(x)
Truthy(x) ==
    CASE x.k = "NoneType" -> FALSE
      [] x.k = "bool" -> x.v
      [] x.k \in {"int", "float"} -> x.v # 0
      [] x.k = "str" -> x.v # ""
      [] x.k \in {"list", "tuple", "dict"} -> Len(x.v) > 0
      [] x.k = "set" -> FALSE
      [] OTHER -> TRUE

\* the strings int() and float() parse, with the integer they denote
NumeralValue(s) ==
    CASE s = "0" -> 0 [] s = "1" -> 1 [] s = "2" -> 2 [] s = "4" -> 4
      [] s = "21" -> 21 [] s = "42" -> 42 [] OTHER -> -1

\* getattr(builtins, name)(x), for the names of BuiltinNames
CallBuiltin(name, x) ==
    CASE name = "bool" -> Ok(PyBool(Truthy(x)))
      [] name = "int" ->
            CASE x.k = "int" -> Ok(x)
              [] x.k = "bool" -> Ok(PyInt(IF x.v THEN 1 ELSE 0))
              [] x.k = "float" -> Ok(PyInt(x.v \div 2))
              [] x.k = "str" ->
                    IF NumeralValue(x.v) >= 0 THEN Ok(PyInt(NumeralValue(x.v)))
                    ELSE Raise("ValueError")
              [] OTHER -> Raise("TypeError")
      [] name = "float" ->
            CASE x.k = "float" -> Ok(x)
              [] x.k = "int" -> Ok(PyFloat(2 * x.v))
              [] x.k = "bool" -> Ok(PyFloat(IF x.v THEN 2 ELSE 0))
              [] x.k = "str" ->
                    IF NumeralValue(x.v) >= 0 THEN Ok(PyFloat(2 * NumeralValue(x.v)))
                    ELSE Raise("ValueError")
              [] OTHER -> Raise("TypeError")
      [] name = "str" ->
            CASE x.k = "str" -> Ok(x)
              [] x.k = "int" -> Ok(PyStr(ToString(x.v)))
              [] x.k = "NoneType" -> Ok(PyStr("None"))
              [] x.k = "bool" -> Ok(PyStr(IF x.v THEN "True" ELSE "False"))
              [] OTHER -> Ok(PyStr("<repr>"))
      [] name \in {"list", "tuple"} ->
            CASE x.k \in {"list", "tuple"} -> Ok([k |-> name, v |-> x.v])
              [] x.k = "dict" -> Ok([k |-> name, v |-> [i \in 1..Len(x.v) |-> x.v[i].key]])
              [] x.k = "str" /\ x.v = "" -> Ok([k |-> name, v |-> <<>>])
              [] x.k = "str" /\ x.v # "" -> Ok([k |-> name, v |-> <<x>>])
              [] x.k = "set" -> Ok([k |-> name, v |-> <<>>])
              [] OTHER -> Raise("TypeError")
      [] name = "dict" ->
            CASE x.k = "dict" -> Ok(x)
              [] x.k \in {"list", "tuple"} /\ Len(x.v) = 0 -> Ok(PyDict(<<>>))
              [] x.k \in {"list", "tuple"} /\ Len(x.v) > 0 -> Raise("TypeError")
              [] x.k = "str" /\ x.v = "" -> Ok(PyDict(<<>>))
              [] x.k = "str" /\ x.v # "" -> Raise("ValueError")
              [] x.k = "set" -> Ok(PyDict(<<>>))
              [] OTHER -> Raise("TypeError")
      [] name = "set" ->
            CASE x.k \in {"list", "tuple", "dict"} /\ Len(x.v) = 0 -> Ok(PySet)
              [] x.k = "str" /\ x.v = "" -> Ok(PySet)
              [] x.k = "set" -> Ok(PySet)
              [] OTHER -> Raise("TypeError")
      [] OTHER -> Raise("AttributeError")

(***************************************************************************)
(* JSON text, kept as the JSON value it denotes, and the json module.      *)
(***************************************************************************)
JNull == [j |-> "null"]
JBool(b) == [j |-> "bool", v |-> b]
JInt(n) == [j |-> "int", v |-> n]
JReal(h) == [j |-> "real", v |-> h]
JString(s) == [j |-> "string", v |-> s]
JArray(xs) == [j |-> "array", v |-> xs]
JObject(members) == [j |-> "object", v |-> members]
\* text that is no JSON document
JMalformed == [j |-> "malformed"]

\* the member name json.dumps writes for a dict key (TypeError for a key it refuses)
JsonKey(key) ==
    CASE key.k = "str" -> Ok(key.v)
      [] key.k = "int" -> Ok(ToString(key.v))
      [] key.k = "bool" -> Ok(IF key.v THEN "true" ELSE "false")
      [] key.k = "NoneType" -> Ok("null")
      [] OTHER -> Raise("TypeError")

RECURSIVE json_dumps(_)
\* json.dumps(obj): the JSON value written, or TypeError
json_dumps(obj) ==
    CASE obj.k = "NoneType" -> Ok(JNull)
      [] obj.k = "bool" -> Ok(JBool(obj.v))
      [] obj.k = "int" -> Ok(JInt(obj.v))
      [] obj.k = "float" -> Ok(JReal(obj.v))
      [] obj.k = "str" -> Ok(JString(obj.v))
      [] obj.k \in {"list", "tuple"} ->
            LET rs == Collect([i \in 1..Len(obj.v) |-> json_dumps(obj.v[i])])
            IN  IF rs.ok THEN Ok(JArray(rs.val)) ELSE rs
      [] obj.k = "dict" ->
            LET ks == Collect([i \in 1..Len(obj.v) |-> JsonKey(obj.v[i].key)])
                vs == Collect([i \in 1..Len(obj.v) |-> json_dumps(obj.v[i].val)])
            IN  IF ~ks.ok THEN ks
                ELSE IF ~vs.ok THEN vs
                ELSE Ok(JObject([i \in 1..Len(obj.v) |-> Item(ks.val[i], vs.val[i])]))
      [] OTHER -> Raise("TypeError")

RECURSIVE JsonValue(_)
\* the Python value json.loads builds from a JSON value
JsonValue(jv) ==
    CASE jv.j = "null" -> PyNone
      [] jv.j = "bool" -> PyBool(jv.v)
      [] jv.j = "int" -> PyInt(jv.v)
      [] jv.j = "real" -> PyFloat(jv.v)
      [] jv.j = "string" -> PyStr(jv.v)
      [] jv.j = "array" -> PyList([i \in 1..Len(jv.v) |-> JsonValue(jv.v[i])])
      [] jv.j = "object" ->
            PyDict([i \in 1..Len(jv.v) |-> Item(PyStr(jv.v[i].key), JsonValue(jv.v[i].val))])

\* json.loads(text)
json_loads(text) ==
    IF text.j = "malformed" THEN Raise("JSONDecodeError") ELSE Ok(JsonValue(text))

(***************************************************************************)
(* The tagged-value codec: Proxy._convert_argument_to_json /               *)
(* _convert_argument_from_json on the client, Server.convert_argument_*    *)
(* on the server.  A tagged value is the dict {"type": t, "value": v}.     *)
(***************************************************************************)
Tagged(t, val) == PyDict(<<Item(PyStr("type"), PyStr(t)), Item(PyStr("value"), val)>>)

\* RemoteVar(variable_reference_name), the client-side class
RemoteVar(name) == [k |-> "RemoteVar", v |-> name]

\* the non-list branch of Proxy._convert_argument_to_json
ProxyTag(arg) ==
    LET arg_type == TypeName(arg)
    IN  IF arg_type = "RemoteVar" THEN Tagged(arg_type, arg.v) ELSE Tagged(arg_type, arg)

RECURSIVE Proxy_convert_argument_to_json(_)
Proxy_convert_argument_to_json(arg) ==
    IF arg.k \in {"list", "tuple"}
    THEN PyList([i \in 1..Len(arg.v) |-> Proxy_convert_argument_to_json(arg.v[i])])
    ELSE ProxyTag(arg)

\* ProxyUntag without its NoneType branch
ProxyUntagNoNone(arg) ==
    LET arg_type == Subscript(arg, "type")
        arg_value == Subscript(arg, "value")
    IN  IF ~arg_type.ok THEN arg_type
        ELSE IF ~arg_value.ok THEN arg_value
        ELSE IF arg_type.val = PyStr("RemoteVar") THEN Ok(RemoteVar(arg_value.val))
        ELSE IF arg_type.val.k # "str" THEN Raise("TypeError")
        ELSE CallBuiltin(arg_type.val.v, arg_value.val)

\* the non-list branch of Proxy._convert_argument_from_json
ProxyUntag(arg) ==
    LET arg_type == Subscript(arg, "type")
        arg_value == Subscript(arg, "value")
    IN  IF ~arg_type.ok THEN arg_type
        ELSE IF ~arg_value.ok THEN arg_value
        ELSE IF arg_type.val = PyStr("RemoteVar") THEN Ok(RemoteVar(arg_value.val))
        ELSE IF arg_type.val = PyStr("NoneType") THEN Ok(PyNone)
        ELSE IF arg_type.val.k # "str" THEN Raise("TypeError")
        ELSE CallBuiltin(arg_type.val.v, arg_value.val)

RECURSIVE Proxy_convert_argument_from_json(_)
Proxy_convert_argument_from_json(arg) ==
    IF arg.k = "list"
    THEN LET rs == Collect([i \in 1..Len(arg.v) |-> Proxy_convert_argument_from_json(arg.v[i])])
         IN  IF rs.ok THEN Ok(PyList(rs.val)) ELSE rs
    ELSE ProxyUntag(arg)

\* The Reference Table: _local_variable_count and _local_variables (a function
\* from the string keys to the stored values).
EmptyTable == [count |-> 0, vars |-> <<>>]

\* ServerTag with the counter advanced and the value not inserted
ServerTagNoInsert(arg, tb) ==
    LET arg_type == TypeName(arg)
    IN  IF ~HasBuiltin(arg_type) /\ arg_type # "NoneType"
        THEN LET n == tb.count + 1
             IN  [out |-> Tagged("RemoteVar", PyStr(ToString(n))),
                  tb |-> [count |-> n, vars |-> tb.vars]]
        ELSE [out |-> Tagged(arg_type, arg), tb |-> tb]

\* ServerTag with the value inserted and the counter left as it was
ServerTagSameId(arg, tb) ==
    LET arg_type == TypeName(arg)
    IN  IF ~HasBuiltin(arg_type) /\ arg_type # "NoneType"
        THEN LET n == tb.count
             IN  [out |-> Tagged("RemoteVar", PyStr(ToString(n))),
                  tb |-> [count |-> n, vars |-> (ToString(n) :> arg) @@ tb.vars]]
        ELSE [out |-> Tagged(arg_type, arg), tb |-> tb]

\* ServerTag with the value inserted under the next id and the advanced
\* counter not written back
ServerTagLostCount(arg, tb) ==
    LET arg_type == TypeName(arg)
    IN  IF ~HasBuiltin(arg_type) /\ arg_type # "NoneType"
        THEN LET n == tb.count + 1
             IN  [out |-> Tagged("RemoteVar", PyStr(ToString(n))),
                  tb |-> [count |-> tb.count, vars |-> (ToString(n) :> arg) @@ tb.vars]]
        ELSE [out |-> Tagged(arg_type, arg), tb |-> tb]

\* ServerTag giving an object that is already stored the id it has
ServerTagReuse(arg, tb) ==
    LET arg_type == TypeName(arg)
        stored == {id \in DOMAIN tb.vars : tb.vars[id] = arg}
    IN  IF ~HasBuiltin(arg_type) /\ arg_type # "NoneType"
        THEN IF stored # {}
             THEN [out |-> Tagged("RemoteVar", PyStr(CHOOSE id \in stored : TRUE)), tb |-> tb]
             ELSE LET n == tb.count + 1
                  IN  [out |-> Tagged("RemoteVar", PyStr(ToString(n))),
                       tb |-> [count |-> n, vars |-> (ToString(n) :> arg) @@ tb.vars]]
        ELSE [out |-> Tagged(arg_type, arg), tb |-> tb]

\* ServerTag keeping in the table every value it tags
ServerTagKeepingAll(arg, tb) ==
    LET arg_type == TypeName(arg)
        n == tb.count + 1
        kept == [count |-> n, vars |-> (ToString(n) :> arg) @@ tb.vars]
    IN  IF ~HasBuiltin(arg_type) /\ arg_type # "NoneType"
        THEN [out |-> Tagged("RemoteVar", PyStr(ToString(n))), tb |-> kept]
        ELSE [out |-> Tagged(arg_type, arg), tb |-> kept]

\* the non-list branch of Server.convert_argument_to_json on the table tb:
\* the tagged value and the table afterwards
ServerTag(arg, tb) ==
    LET arg_type == TypeName(arg)
    IN  IF ~HasBuiltin(arg_type) /\ arg_type # "NoneType"
        THEN LET n == tb.count + 1
             IN  [out |-> Tagged("RemoteVar", PyStr(ToString(n))),
                  tb |-> [count |-> n, vars |-> (ToString(n) :> arg) @@ tb.vars]]
        ELSE [out |-> Tagged(arg_type, arg), tb |-> tb]

RECURSIVE convert_argument_to_json(_, _)
RECURSIVE ConvertElements(_, _, _, _)
\* the list comprehension of convert_argument_to_json, element i onwards
ConvertElements(xs, i, acc, tb) ==
    IF i > Len(xs) THEN [out |-> PyList(acc), tb |-> tb]
    ELSE LET r == convert_argument_to_json(xs[i], tb)
         IN  ConvertElements(xs, i + 1, Append(acc, r.out), r.tb)

convert_argument_to_json(arg, tb) ==
    IF arg.k \in {"list", "tuple"}
    THEN ConvertElements(arg.v, 1, <<>>, tb)
    ELSE ServerTag(arg, tb)

\* the non-list branch of Server.convert_argument_from_json
ServerUntag(arg, tb) ==
    LET arg_type == Subscript(arg, "type")
        arg_value == Subscript(arg, "value")
    IN  IF ~arg_type.ok THEN arg_type
        ELSE IF ~arg_value.ok THEN arg_value
        ELSE IF arg_type.val = PyStr("RemoteVar")
             THEN LET key == CallBuiltin("str", arg_value.val).val.v
                  IN  IF key \in DOMAIN tb.vars THEN Ok(tb.vars[key]) ELSE Raise("KeyError")
        ELSE IF arg_type.val = PyStr("NoneType") THEN Ok(PyNone)
        ELSE IF arg_type.val.k # "str" THEN Raise("TypeError")
        ELSE CallBuiltin(arg_type.val.v, arg_value.val)

RECURSIVE convert_argument_from_json(_, _)
convert_argument_from_json(arg, tb) ==
    IF arg.k = "list"
    THEN LET rs == Collect([i \in 1..Len(arg.v) |-> convert_argument_from_json(arg.v[i], tb)])
         IN  IF rs.ok THEN Ok(PyList(rs.val)) ELSE rs
    ELSE ServerUntag(arg, tb)

(***************************************************************************)
(* The served objects.  A served module is a record of its attributes; the *)
(* functions are those of tests/integration/test_libs/library.py.          *)
(***************************************************************************)
PyModule(attrs) == [k |-> "module", attrs |-> attrs]

\* test_libs/library.py: a class and five functions, all callable
library ==
    PyModule([n \in {"ComplicatedObject", "create_complicated_object", "set_co",
                     "get_co", "do_something", "get_double"} |-> PyCallable(n)])

\* test_libs/parameters.py: the module-level constant the tests read
parameters == PyModule([n \in {"PARAM1"} |-> PyInt(4)])

\* a served module holding plain data: a list of integers
DataModule == PyModule([n \in {"VALUES"} |-> PyList(<<PyInt(1), PyInt(2)>>)])

\* server_app.py: the registry the integration tests serve
served_objects == ("TargetClass" :> library) @@ ("Param" :> parameters)

\* the registries run_server is started with: the one of the integration
\* tests, with a module of plain data next to the two it serves
ServedChoices == {served_objects @@ ("Data" :> DataModule)}

\* the parameter names of a callable of library.py
Params(name) ==
    CASE name = "set_co" -> <<"co", "v">>
      [] name = "get_co" -> <<"co">>
      [] name = "do_something" -> <<"action">>
      [] name = "get_double" -> <<"number">>
      [] OTHER -> <<>>

\* Python's binding of positional and keyword arguments to the parameters
Bind(params, args, kwargs) ==
    LET positional == {params[i] : i \in 1..Len(args) \cap 1..Len(params)}
        keys == {kwargs.v[i].key.v : i \in 1..Len(kwargs.v)}
        names == {params[i] : i \in 1..Len(params)}
    IN  IF \/ Len(args) > Len(params)
           \/ ~(keys \subseteq names)
           \/ keys \cap positional # {}
           \/ \E i \in (Len(args) + 1)..Len(params) : params[i] \notin keys
        THEN Raise("TypeError")
        ELSE Ok([i \in 1..Len(params) |->
                    IF i <= Len(args) THEN args[i] ELSE DictGet(kwargs, PyStr(params[i]))])

\* number * 2
Double(number) ==
    CASE number.k = "int" -> Ok(PyInt(number.v * 2))
      [] number.k = "bool" -> Ok(PyInt(IF number.v THEN 2 ELSE 0))
      [] number.k = "float" -> Ok(PyFloat(number.v * 2))
      [] number.k = "str" -> Ok(PyStr(number.v \o number.v))
      [] number.k \in {"list", "tuple"} -> Ok([k |-> number.k, v |-> number.v \o number.v])
      [] OTHER -> Raise("TypeError")

IsComplicatedObject(x) == x.k = "object" /\ x.cls = "ComplicatedObject"

\* The body of a callable of library.py on the bound arguments a.  The heap
\* is the sequence of the var fields of the ComplicatedObject instances.
\* The result and the heap afterwards.
Body(name, a, heap) ==
    CASE name \in {"create_complicated_object", "ComplicatedObject"} ->
            [res |-> Ok(PyObj("ComplicatedObject", Len(heap) + 1)),
             heap |-> Append(heap, PyInt(0))]
      [] name = "set_co" ->
            IF IsComplicatedObject(a[1])
            THEN [res |-> Ok(PyNone), heap |-> [heap EXCEPT ![a[1].addr] = a[2]]]
            ELSE [res |-> Raise("AttributeError"), heap |-> heap]
      [] name = "get_co" ->
            IF IsComplicatedObject(a[1]) THEN [res |-> Ok(heap[a[1].addr]), heap |-> heap]
            ELSE IF a[1].k = "dict" THEN [res |-> Raise("TypeError"), heap |-> heap]
            ELSE [res |-> Raise("AttributeError"), heap |-> heap]
      [] name = "do_something" -> [res |-> Ok(PyNone), heap |-> heap]
      [] name = "get_double" -> [res |-> Double(a[1]), heap |-> heap]

\* target_function(*args, **kwargs)
Invoke(f, args, kwargs, heap) ==
    IF f.k # "function" THEN [res |-> Raise("TypeError"), heap |-> heap]
    ELSE LET b == Bind(Params(f.v), args, kwargs)
         IN  IF b.ok THEN Body(f.v, b.val, heap) ELSE [res |-> b, heap |-> heap]

\* callable(target_attribute)
callable(x) == x.k = "function"

\* getattr(obj, name)
GetAttr(obj, name) ==
    IF name.k # "str" THEN Raise("TypeError")
    ELSE IF obj.k = "module" /\ name.v \in DOMAIN obj.attrs THEN Ok(obj.attrs[name.v])
    ELSE Raise("AttributeError")

\* Server.return_target: self._target_classes[target_class]
return_target(target_classes, target_class) ==
    IF target_class.k \in {"list", "dict", "set"} THEN Raise("TypeError")
    ELSE IF target_class.k = "str" /\ target_class.v \in DOMAIN target_classes
    THEN Ok(target_classes[target_class.v])
    ELSE Raise("KeyError")

\* name in obj
Contains(obj, name) ==
    CASE obj.k = "dict" -> Ok(DictHas(obj, PyStr(name)))
      [] obj.k \in {"list", "tuple"} -> Ok(\E i \in 1..Len(obj.v) : obj.v[i] = PyStr(name))
      [] obj.k = "str" -> Ok(obj.v = name)
      [] OTHER -> Raise("TypeError")

\* d.get(key, default) on a dict
DictGetDefault(d, key, default) ==
    IF DictHas(d, PyStr(key)) THEN DictGet(d, PyStr(key)) ELSE default

(***************************************************************************)
(* The dispatcher.  run_command and get_attribute give the text returned   *)
(* (or the exception raised) with the Reference Table and the heap as the  *)
(* call leaves them: what a call changed before it raised stays changed.   *)
(***************************************************************************)
Success(ret) == PyDict(<<Item(PyStr("status"), PyStr("success")), Item(PyStr("return"), ret)>>)

\* the answer to the probe of a callable attribute
CallableSentinel == Tagged("callable", PyNone)

\* Server.get_attribute
get_attribute(command, target_classes, tb, heap) ==
    LET command_json == json_loads(command)
        target_class == Subscript(command_json.val, "class")
        attribute == Subscript(command_json.val, "attribute")
        target == return_target(target_classes, target_class.val)
        target_attribute == GetAttr(target.val, attribute.val)
        conv == convert_argument_to_json(target_attribute.val, tb)
        Fail(r) == [res |-> r, tb |-> tb, heap |-> heap]
    IN  IF ~command_json.ok THEN Fail(command_json)
        ELSE IF ~target_class.ok THEN Fail(target_class)
        ELSE IF ~attribute.ok THEN Fail(attribute)
        ELSE IF ~target.ok THEN Fail(target)
        ELSE IF ~target_attribute.ok THEN Fail(target_attribute)
        ELSE IF callable(target_attribute.val)
        THEN [res |-> json_dumps(Success(CallableSentinel)), tb |-> tb, heap |-> heap]
        ELSE [res |-> json_dumps(Success(conv.out)), tb |-> conv.tb, heap |-> heap]

\* Server.run_command
run_command(command, target_classes, tb, heap) ==
    LET command_json == json_loads(command)
        has_function == Contains(command_json.val, "function")
        target_class == Subscript(command_json.val, "class")
        function == Subscript(command_json.val, "function")
        args_raw == CallBuiltin("list", DictGetDefault(command_json.val, "args", PyList(<<>>)))
        args == Collect([i \in 1..Len(args_raw.val.v) |->
                            convert_argument_from_json(args_raw.val.v[i], tb)])
        kwargs_raw == DictGetDefault(command_json.val, "kwargs", PyDict(<<>>))
        kwargs == Collect([i \in 1..Len(kwargs_raw.v) |->
                              convert_argument_from_json(kwargs_raw.v[i].val, tb)])
        kwargs_dict == PyDict([i \in 1..Len(kwargs_raw.v) |->
                                  Item(kwargs_raw.v[i].key, kwargs.val[i])])
        target == return_target(target_classes, target_class.val)
        target_function == GetAttr(target.val, function.val)
        call == Invoke(target_function.val, args.val, kwargs_dict, heap)
        conv == convert_argument_to_json(call.res.val, tb)
        Fail(r) == [res |-> r, tb |-> tb, heap |-> heap]
    IN  IF ~command_json.ok THEN Fail(command_json)
        ELSE IF ~has_function.ok THEN Fail(has_function)
        ELSE IF ~has_function.val THEN get_attribute(command, target_classes, tb, heap)
        ELSE IF ~target_class.ok THEN Fail(target_class)
        ELSE IF ~function.ok THEN Fail(function)
        ELSE IF ~args_raw.ok THEN Fail(args_raw)
        ELSE IF ~args.ok THEN Fail(args)
        ELSE IF kwargs_raw.k # "dict" THEN Fail(Raise("AttributeError"))
        ELSE IF ~kwargs.ok THEN Fail(kwargs)
        ELSE IF ~target.ok THEN Fail(target)
        ELSE IF ~target_function.ok THEN Fail(target_function)
        ELSE IF ~call.res.ok THEN [res |-> call.res, tb |-> tb, heap |-> call.heap]
        ELSE [res |-> json_dumps(Success(conv.out)), tb |-> conv.tb, heap |-> call.heap]

\* a line a connection delivers: no data at all, bytes that are not UTF-8,
\* or text
NoData == [j |-> "empty"]
BadBytes == [j |-> "bad_utf8"]

\* data.decode("utf-8")
Decode(data) == IF data.j = "bad_utf8" THEN Raise("UnicodeDecodeError") ELSE Ok(data)

\* an except block that raises the exception again
CaughtReraised(exc, tb, heap) ==
    [written |-> <<>>, escaped |-> exc, tb |-> tb, heap |-> heap]

\* an except block that answers and starts the Reference Table afresh
CaughtForgetting(exc, tb, heap) ==
    [written |-> <<json_dumps(PyDict(<<Item(PyStr("status"), PyStr("exception")),
                                        Item(PyStr("message"), PyStr(exc)),
                                        Item(PyStr("traceback"),
                                             PyDict(<<Item(PyStr("tb_frame"),
                                                           PyStr("handle_request"))>>))>>)).val>>,
     escaped |-> "none", tb |-> EmptyTable, heap |-> heap]

\* The except block of handle_request: the exception Response for the caught
\* exception; message is repr(ev), kept as the name of the exception's type,
\* and the traceback dict names the frame that caught it.
Caught(exc, tb, heap) ==
    [written |-> <<json_dumps(PyDict(<<Item(PyStr("status"), PyStr("exception")),
                                        Item(PyStr("message"), PyStr(exc)),
                                        Item(PyStr("traceback"),
                                             PyDict(<<Item(PyStr("tb_frame"),
                                                           PyStr("handle_request"))>>))>>)).val>>,
     escaped |-> "none", tb |-> tb, heap |-> heap]

\* handle_request from result_string on: the line written for what
\* run_command gave, r
Respond(r) ==
    IF ~r.res.ok THEN Caught(r.res.exc, r.tb, r.heap)
    ELSE [written |-> <<r.res.val>>, escaped |-> "none", tb |-> r.tb, heap |-> r.heap]

\* handle_request once data is read: the lines written to the connection,
\* the exception that leaves the task ("none" when none does), and the
\* server's state afterwards.
handle_request(data, target_classes, tb, heap) ==
    IF data = NoData
    THEN [written |-> <<>>, escaped |-> "none", tb |-> tb, heap |-> heap]
    ELSE IF ~Decode(data).ok THEN Caught(Decode(data).exc, tb, heap)
    ELSE Respond(run_command(Decode(data).val, target_classes, tb, heap))

(***************************************************************************)
(* The Proxy.                                                              *)
(***************************************************************************)
\* what an attribute access or a call gives its caller
Returned(val) == [kind |-> "return", val |-> val]
Raised(exc, msg) == [kind |-> "raise", exc |-> exc, msg |-> msg]
\* the bound invoker handle_call
Invoker == [kind |-> "invoker"]
\* nothing given yet: the access or call has not come back
Pending == [kind |-> "pending"]

\* unpack_result giving back every Response that json parses
unpack_result_unchecked(response) ==
    LET result == json_loads(response)
    IN  IF ~result.ok THEN Raised(result.exc, "") ELSE Returned(result.val)

\* unpack_result taking every Response that is no success for a remote failure
unpack_result_remote(response) ==
    LET result == json_loads(response)
    IN  IF result.ok /\ result.val.k = "dict"
           /\ DictGetDefault(result.val, "status", PyStr("invalid")) = PyStr("success")
        THEN Returned(result.val)
        ELSE Raised("RemoteError", "Server-side processing failed")

\* Proxy.unpack_result: the parsed Response, or the error raised
unpack_result(response) ==
    LET result == json_loads(response)
        status == IF result.val.k = "dict"
                  THEN Ok(DictGetDefault(result.val, "status", PyStr("invalid")))
                  ELSE Raise("AttributeError")
        message == Subscript(result.val, "message")
        traceback == Subscript(result.val, "traceback")
    IN  IF ~result.ok THEN Raised(result.exc, "")
        ELSE IF ~status.ok THEN Raised(status.exc, "")
        ELSE IF status.val = PyStr("success") THEN Returned(result.val)
        ELSE IF status.val = PyStr("exception")
        THEN IF ~message.ok THEN Raised(message.exc, "")
             ELSE IF ~traceback.ok THEN Raised(traceback.exc, "")
             ELSE IF traceback.val.k # "dict" THEN Raised("TypeError", "")
             ELSE Raised("RemoteError", "Server-side processing failed with "
                                         \o CallBuiltin("str", message.val).val.v)
        ELSE Raised("RuntimeError", "Error decoding the response from the server")

\* the attribute Command of Proxy.__getattr__
AttributeCommand(target_class, function) ==
    json_dumps(PyDict(<<Item(PyStr("class"), PyStr(target_class)),
                        Item(PyStr("attribute"), PyStr(function))>>)).val

\* the function Command of handle_call
FunctionCommand(target_class, function, args, kwargs) ==
    json_dumps(PyDict(<<Item(PyStr("class"), PyStr(target_class)),
                        Item(PyStr("function"), PyStr(function)),
                        Item(PyStr("args"),
                             PyList([i \in 1..Len(args) |->
                                        Proxy_convert_argument_to_json(args[i])])),
                        Item(PyStr("kwargs"),
                             PyDict([i \in 1..Len(kwargs) |->
                                        Item(kwargs[i].key,
                                             Proxy_convert_argument_to_json(kwargs[i].val))]))
                      >>)).val

\* result_json["return"]["type"] == "callable", then the conversion: what
\* Proxy.__getattr__ gives once the attribute Command is answered
AttributeOutcome(response) ==
    LET result_json == unpack_result(response)
        ret == Subscript(result_json.val, "return")
        type == Subscript(ret.val, "type")
        value == Proxy_convert_argument_from_json(ret.val)
    IN  IF result_json.kind = "raise" THEN result_json
        ELSE IF ~ret.ok THEN Raised(ret.exc, "")
        ELSE IF ~type.ok THEN Raised(type.exc, "")
        ELSE IF type.val = PyStr("callable") THEN Invoker
        ELSE IF ~value.ok THEN Raised(value.exc, "")
        ELSE Returned(value.val)

\* what handle_call gives once the function Command is answered
CallOutcome(response) ==
    LET result_json == unpack_result(response)
        ret == Subscript(result_json.val, "return")
        value == Proxy_convert_argument_from_json(ret.val)
    IN  IF result_json.kind = "raise" THEN result_json
        ELSE IF ~ret.ok THEN Raised(ret.exc, "")
        ELSE IF ~value.ok THEN Raised(value.exc, "")
        ELSE Returned(value.val)

(***************************************************************************)
(* The named-pipe transport, PipeProxy._send_to_server_binary.  Time is    *)
(* counted in steps of 1/204800 of the code's time unit, so that the delay *)
(* 0.03 and each of its products with 1.5 up to the last one the loop      *)
(* computes are whole numbers; the code's floats are nowhere nearer than   *)
(* 0.2 to the 2.0 they are compared with, so the comparisons agree.        *)
(***************************************************************************)
\* delay = 0.03
InitialDelay == 6144
\* PipeProxy.MAX_TIMEOUT = 2.0
MAX_TIMEOUT == 409600

\* delay *= 1.5
Grow(delay) == (delay * 3) \div 2

\* winerror.ERROR_FILE_NOT_FOUND, and the winerror of other failures of
\* CallNamedPipe: every pipe instance is busy, the server closed the pipe
ERROR_FILE_NOT_FOUND == "ERROR_FILE_NOT_FOUND"
OtherErrors == {"ERROR_PIPE_BUSY", "ERROR_BROKEN_PIPE"}

\* what CallNamedPipe can do: with no pipe of the name it fails with
\* ERROR_FILE_NOT_FOUND, with one it gives the reply or fails otherwise
CallNamedPipe(endpoint) ==
    IF endpoint THEN {"reply"} \cup OtherErrors ELSE {ERROR_FILE_NOT_FOUND}

\* an except block that propagates every error
PipeOnErrorNoRetry(winerror, delay) == "raise"

\* an except block that retries after every error
PipeOnErrorRetryAll(winerror, delay) ==
    IF delay > MAX_TIMEOUT THEN "raise" ELSE "sleep"

\* The except block of _send_to_server_binary for an error with the given
\* winerror at the given delay: "raise", or "sleep" (then delay *= 1.5).
PipeOnError(winerror, delay) ==
    IF winerror # ERROR_FILE_NOT_FOUND THEN "raise"
    ELSE IF delay > MAX_TIMEOUT THEN "raise"
    ELSE "sleep"

\* the Commands the PipeProxy sends
PipeCommands ==
    <<AttributeCommand("Param", "PARAM1"), AttributeCommand("TargetClass", "get_double")>>

\* the line the pipe server writes for a Command: handle_request on a server
\* started with served_objects
PipeReply(command) == handle_request(command, served_objects, EmptyTable, <<>>).written[1]

(***************************************************************************)
(* The RunServer supervisor.  A supervisor state st is the class attribute *)
(* _instances, the fields of every RunServer object (an object is its      *)
(* number; an object never constructed has the class defaults) and the     *)
(* state of the process each object's _process stands for.  A method gives *)
(* the state it leaves behind and the exception it raises, "none" if none. *)
(***************************************************************************)
\* the paths callers name, and the absent argument None
ExePaths == {"server.exe", "other.exe"}
PyPaths == {"server.py"}
Paths == ExePaths \cup PyPaths
None == "None"

Objects == 1..MaxInst

\* the object ids callers identify themselves with
Callers == {1, 2}

\* what the file system and the running interpreter are like
Environments == [files : SUBSET Paths, interpreter : BOOLEAN]

\* get_id giving every caller the one id
get_id_shared(caller) == 0

\* RunServer.get_id: id(caller), the identity of the caller object; a caller
\* is modelled by that identity
get_id(caller) == caller

\* self._process.poll() is None: the process has not exited
Alive(p) == p \in {"running", "terminating"}

\* cls._instances.get(str(path), default)
InstancesGet(st, path, default) ==
    IF path # None /\ st.instances[path] # 0 THEN st.instances[path] ELSE default

\* an object number not in use, 0 when the model has none left
Unused(st) ==
    IF \E o \in Objects : \A path \in Paths : st.instances[path] # o
    THEN CHOOSE o \in Objects :
            /\ \A path \in Paths : st.instances[path] # o
            /\ \A q \in Objects : q < o => \E path \in Paths : st.instances[path] = q
    ELSE 0

\* RunServer.__new__: the object given, the exception raised and the state
\* left behind
RunServer_new(st, server_exe, server_py) ==
    LET found == IF InstancesGet(st, server_exe, 0) # 0
                 THEN InstancesGet(st, server_exe, 0)
                 ELSE InstancesGet(st, server_py, 0)
        obj == IF found = 0 THEN Unused(st) ELSE found
    IN  IF InstancesGet(st, server_exe, obj) # InstancesGet(st, server_py, obj)
        THEN [obj |-> 0, exc |-> "ValueError", st |-> st]
        ELSE [obj |-> obj, exc |-> "none",
              st |-> [st EXCEPT !.instances =
                         [path \in Paths |->
                             IF path \in {server_exe, server_py} THEN obj ELSE @[path]]]]

\* check_server_path that never raises
check_server_path_never(previous, new) == FALSE

\* RunServer.check_server_path: TRUE when it raises ValueError
check_server_path(previous, new) == previous # None /\ new # None /\ previous # new

\* terminate_server emptying the holder set whether or not the process runs
RunServer_terminate_server_clearing(st, self) ==
    IF Alive(st.process[self])
    THEN [st EXCEPT !.references[self] = {}, !.process[self] = "terminating"]
    ELSE [st EXCEPT !.references[self] = {}]

\* RunServer.terminate_server
RunServer_terminate_server(st, self) ==
    IF Alive(st.process[self])
    THEN [st EXCEPT !.references[self] = {}, !.process[self] = "terminating"]
    ELSE st

\* a launch policy that prefers the script to the executable
LaunchPolicyScriptFirst(server_exe, server_py, env) ==
    IF env.interpreter /\ server_py # None /\ server_py \in env.files THEN "py"
    ELSE IF server_exe # None /\ server_exe \in env.files THEN "exe"
    ELSE "FileNotFoundError"

\* the branch of run_server's launch policy taken: "exe", "py" or the
\* exception raised
LaunchPolicy(server_exe, server_py, env) ==
    IF server_exe # None /\ server_exe \in env.files THEN "exe"
    ELSE IF ~env.interpreter THEN "FileNotFoundError"
    ELSE IF server_py # None /\ server_py \in env.files THEN "py"
    ELSE "FileNotFoundError"

\* RunServer.run_server
RunServer_run_server(st, self, env) ==
    LET terminated == RunServer_terminate_server(st, self)
        branch == LaunchPolicy(st.server_exe[self], st.server_py[self], env)
    IN  IF branch = "FileNotFoundError"
        THEN [exc |-> "FileNotFoundError", launched |-> FALSE, cmd |-> "none",
              st |-> terminated]
        ELSE [exc |-> "none", launched |-> TRUE, cmd |-> branch,
              st |-> [terminated EXCEPT !.process[self] = "running"]]

\* line 113 with every acquire launching
NeedsLaunchAlways(p) == TRUE

\* line 113: not self._process or self._process.poll() is not None
NeedsLaunch(p) == ~Alive(p)

\* __init__ recording the caller before it looks at the process
RunServer_init_holding(st, self, caller, server_exe, server_py, env) ==
    IF \/ check_server_path(st.server_exe[self], server_exe)
       \/ check_server_path(st.server_py[self], server_py)
    THEN [exc |-> "ValueError", launched |-> FALSE, cmd |-> "none", st |-> st]
    ELSE LET named == [st EXCEPT
                          !.server_exe[self] = IF server_exe # None THEN server_exe ELSE @,
                          !.server_py[self] = IF server_py # None THEN server_py ELSE @,
                          !.references[self] = @ \cup {get_id(caller)}]
         IN  IF NeedsLaunch(named.process[self])
             THEN RunServer_run_server(named, self, env)
             ELSE [exc |-> "none", launched |-> FALSE, cmd |-> "none", st |-> named]

\* RunServer.__init__ on the object self
RunServer_init(st, self, caller, server_exe, server_py, env) ==
    IF \/ check_server_path(st.server_exe[self], server_exe)
       \/ check_server_path(st.server_py[self], server_py)
    THEN [exc |-> "ValueError", launched |-> FALSE, cmd |-> "none", st |-> st]
    ELSE LET named == [st EXCEPT
                          !.server_exe[self] = IF server_exe # None THEN server_exe ELSE @,
                          !.server_py[self] = IF server_py # None THEN server_py ELSE @]
             run == IF NeedsLaunch(named.process[self])
                    THEN RunServer_run_server(named, self, env)
                    ELSE [exc |-> "none", launched |-> FALSE, cmd |-> "none", st |-> named]
         IN  IF run.exc # "none" THEN run
             ELSE [run EXCEPT !.st.references[self] = @ \cup {get_id(caller)}]

\* RunServer(caller, server_exe, server_py): __new__, then __init__ on the
\* object it gave
RunServer_call(st, caller, server_exe, server_py, env) ==
    LET made == RunServer_new(st, server_exe, server_py)
    IN  IF made.exc # "none"
        THEN [obj |-> 0, exc |-> made.exc, launched |-> FALSE, cmd |-> "none", st |-> st]
        ELSE [obj |-> made.obj] @@
             RunServer_init(made.st, made.obj, caller, server_exe, server_py, env)

\* release with the process signalled whatever the holder set
RunServer_release_always(st, self, caller) ==
    RunServer_terminate_server(
        [st EXCEPT !.references[self] = @ \ {get_id(caller)}], self)

\* RunServer.release
RunServer_release(st, self, caller) ==
    LET removed == [st EXCEPT !.references[self] = @ \ {get_id(caller)}]
    IN  IF removed.references[self] = {}
        THEN RunServer_terminate_server(removed, self)
        ELSE removed

(***************************************************************************)
(* State.                                                                  *)
(***************************************************************************)
\* The server process: the global `server` (server_up: it is not None), its
\* _target_classes, its Reference Table, the heap of the served classes'
\* instances, and whether the event loop is serving.
VARIABLES server_up, serving, target_classes, table, heap

\* The codec on one value: the value cv, which side encoded it (cenc) and
\* which decoded it (cdec), the text written (cwire), the value read back
\* (cback) and the Reference Table before the encoding (cprev).
VARIABLES cv, cenc, cdec, cwire, cback, cprev

\* What run_server last did: "none", "serving", "RuntimeError", "ValueError".
VARIABLES run_out

\* The clients, each driving one Proxy access at a time: its position (cpc),
\* the attribute or call under way (ccall), the line it sent (creq), the
\* lines the server wrote back (cresp), the exception that left the server's
\* task (cescaped), what the access or call gave (cout) and the Commands it
\* has sent since the access began (clog).
VARIABLES cpc, ccall, creq, cresp, cescaped, cout, clog

\* History: the object each reference id was issued for (issued), the value
\* last set on each ComplicatedObject (expect), the value a get_co under way
\* was served (cexpect), and whether an exception Response was written.
VARIABLES issued, expect, cexpect, cafter, had_exception

\* the supervisor: RunServer._instances, the fields of every RunServer object,
\* the file system and interpreter the client process runs with
VARIABLES instances, server_exe, server_py, process, references, env
\* what the last call of a supervisor method raised and the command it gave
\* Popen ("exe", "py", "none" when it launched nothing), and the run of
\* constructions on one object since the last release, crash or exit
VARIABLES outcome, window
\* the threads of a client process that share one RunServer object: where each
\* is in its method, and whether it has acquired and not yet called release
VARIABLES tpc, holding
\* one PipeProxy in _send_to_server_binary: where it is (ppc), the Command it
\* sends (pcmd), the local delay (pdelay), the time it has slept in this call
\* (pslept), the CallNamedPipe calls it has made (pattempts), whether the
\* server's pipe exists (pendpoint), the time slept when the pipe came into
\* existence during the call (pappeared, -1 when it did not), whether the pipe
\* was missing when the call began (pmissing), the winerror of the error
\* propagated (perr) and the bytes returned (pout)
VARIABLES ppc, pcmd, pdelay, pslept, pattempts, pendpoint, pappeared, pmissing, perr, pout

serverVars == <<server_up, serving, target_classes, table, heap>>
clientVars == <<cpc, ccall, creq, cresp, cescaped, cout, clog>>
historyVars == <<issued, expect, cexpect, cafter, had_exception, run_out>>
codecVars == <<cv, cenc, cdec, cwire, cback, cprev>>
supervisorVars == <<instances, server_exe, server_py, process, references, env,
                    outcome, window>>
threadVars == <<tpc, holding>>
pipeVars == <<ppc, pcmd, pdelay, pslept, pattempts, pendpoint, pappeared, pmissing, perr, pout>>

(***************************************************************************)
(* The codec applied to drawn values.                                      *)
(***************************************************************************)
Atoms == {PyNone, PyBool(TRUE), PyBool(FALSE), PyInt(0), PyInt(1), PyStr(""), PyStr("1")}

RECURSIVE ValuesOfSize(_)
RECURSIVE SeqsOfSize(_)
\* the values built from the atoms and lists that have exactly n nodes
ValuesOfSize(n) ==
    (IF n = 1 THEN Atoms ELSE {}) \cup {PyList(s) : s \in SeqsOfSize(n - 1)}
\* the sequences of such values with m nodes in all
SeqsOfSize(m) ==
    IF m = 0 THEN {<<>>}
    ELSE UNION {{<<h>> \o t : h \in ValuesOfSize(n), t \in SeqsOfSize(m - n)} : n \in 1..m}

\* null, booleans, integers, strings and nested lists of these
PrimitiveValues == UNION {ValuesOfSize(n) : n \in 1..MaxNodes}

\* values of the other kinds a served function can return
OtherValues ==
    {PyFloat(3), PyTuple(<<PyInt(1), PyStr("1")>>),
     PyDict(<<>>), PyDict(<<Item(PyStr("a"), PyInt(1))>>),
     PyObj("ComplicatedObject", 1), PyCallable("get_double"),
     PyList(<<PyFloat(3)>>),
     PyList(<<PyObj("ComplicatedObject", 1), PyInt(1), PyObj("ComplicatedObject", 2)>>),
     PyList(<<PyObj("ComplicatedObject", 1), PyObj("ComplicatedObject", 1)>>),
     PyList(<<PyDict(<<Item(PyStr("a"), PyInt(1))>>)>>),
     PyList(<<PyList(<<PyObj("ComplicatedObject", 2)>>)>>)}

InitServer ==
    /\ server_up = FALSE
    /\ serving = FALSE
    /\ target_classes = <<>>
    /\ table = EmptyTable
    /\ heap = <<>>

InitCodecRest ==
    /\ cenc = "none"
    /\ cdec = "none"
    /\ cwire = Raise("none")
    /\ cback = Raise("none")
    /\ cprev = EmptyTable

\* the server converts cv (a result) and writes it
EncodeServer ==
    /\ cenc = "none"
    /\ LET conv == convert_argument_to_json(cv, table)
       IN  /\ cwire' = json_dumps(conv.out)
           /\ table' = conv.tb
           /\ cprev' = table
    /\ cenc' = "server"
    /\ UNCHANGED <<cv, cdec, cback, server_up, serving, target_classes, heap,
                   clientVars, historyVars,
                   supervisorVars, threadVars, pipeVars>>

\* the client converts cv (an argument) and writes it
EncodeClient ==
    /\ cenc = "none"
    /\ cwire' = json_dumps(Proxy_convert_argument_to_json(cv))
    /\ cenc' = "client"
    /\ UNCHANGED <<cv, cdec, cback, cprev, serverVars, clientVars, historyVars,
                   supervisorVars, threadVars, pipeVars>>

\* the client reads what was written
DecodeClient ==
    /\ cenc # "none" /\ cdec = "none" /\ cwire.ok
    /\ cback' = Proxy_convert_argument_from_json(json_loads(cwire.val).val)
    /\ cdec' = "client"
    /\ UNCHANGED <<cv, cenc, cwire, cprev, serverVars, clientVars, historyVars,
                   supervisorVars, threadVars, pipeVars>>

\* the server reads what was written
DecodeServer ==
    /\ cenc # "none" /\ cdec = "none" /\ cwire.ok
    /\ cback' = convert_argument_from_json(json_loads(cwire.val).val, table)
    /\ cdec' = "server"
    /\ UNCHANGED <<cv, cenc, cwire, cprev, serverVars, clientVars, historyVars,
                   supervisorVars, threadVars, pipeVars>>

(***************************************************************************)
(* The server process and its clients.                                     *)
(***************************************************************************)
Clients == {1, 2}

\* the members a client may access: a served object's name and a member name
Members ==
    <<<<"TargetClass", "create_complicated_object">>, <<"TargetClass", "set_co">>,
      <<"TargetClass", "get_co">>, <<"TargetClass", "get_double">>,
      <<"Param", "PARAM1">>, <<"Data", "VALUES">>, <<"TargetClass", "missing">>,
      <<"Nope", "get_co">>, <<"TargetClass", "_private">>>>

\* every member forwarded
ForwardedAll(function) == TRUE

\* function[0] != "_"
Forwarded(function) == function \notin {"_private"}

\* the positional arguments a client may call the invoker of a member with
ArgsFor(function) ==
    CASE function = "set_co" ->
            <<<<RemoteVar(PyStr("1")), PyInt(42)>>, <<RemoteVar(PyStr("2")), PyInt(4)>>>>
      [] function = "get_co" ->
            <<<<RemoteVar(PyStr("1"))>>, <<RemoteVar(PyStr("2"))>>, <<RemoteVar(PyStr("9"))>>>>
      [] OTHER -> <<<<>>, <<PyInt(21)>>>>

\* lines a peer that is no Proxy may write: no JSON, no UTF-8, nothing at
\* all, JSON that is no object, and a Command with neither "function" nor
\* "attribute"
RawLines ==
    <<JMalformed, BadBytes, NoData, JInt(5),
      JObject(<<Item("class", JString("TargetClass"))>>)>>

NoCall == [target |-> "", function |-> "", args |-> <<>>]

InitClients ==
    /\ cpc = [c \in Clients |-> "idle"]
    /\ ccall = [c \in Clients |-> NoCall]
    /\ creq = [c \in Clients |-> NoData]
    /\ cresp = [c \in Clients |-> <<>>]
    /\ cescaped = [c \in Clients |-> "none"]
    /\ cout = [c \in Clients |-> Pending]
    /\ clog = [c \in Clients |-> <<>>]

InitHistory ==
    /\ issued = <<>>
    /\ expect = <<>>
    /\ cexpect = [c \in Clients |-> PyNone]
    /\ cafter = [c \in Clients |-> FALSE]
    /\ had_exception = FALSE
    /\ run_out = "none"

\* run_server without its test of the global `server`
run_server_again(served, listen) ==
    /\ server_up' = TRUE
    /\ target_classes' = served
    /\ table' = EmptyTable
    /\ run_out' = IF listen = "none" THEN "ValueError" ELSE "serving"
    /\ serving' = (serving \/ listen # "none")
    /\ UNCHANGED heap
    /\ UNCHANGED <<clientVars, codecVars, issued, expect, cexpect, cafter, had_exception,
                   supervisorVars, threadVars, pipeVars>>

\* server.run_server(served, local_ip=..., pipe_name=...): listen is "tcp"
\* (local_ip given), "pipe" (pipe_name given) or "none" (neither)
run_server(served, listen) ==
    /\ IF server_up
       THEN /\ run_out' = "RuntimeError"
            /\ UNCHANGED serverVars
       ELSE /\ server_up' = TRUE
            /\ target_classes' = served
            /\ table' = EmptyTable
            /\ run_out' = IF listen = "none" THEN "ValueError" ELSE "serving"
            /\ serving' = (listen # "none")
            /\ UNCHANGED heap
    /\ UNCHANGED <<clientVars, codecVars, issued, expect, cexpect, cafter, had_exception,
                   supervisorVars, threadVars, pipeVars>>

\* Proxy.__getattr__(function) on a Proxy for target: up to the sending of
\* the attribute Command
Access(c, target, function) ==
    /\ cpc[c] = "idle"
    /\ ccall' = [ccall EXCEPT ![c] = [target |-> target, function |-> function, args |-> <<>>]]
    /\ IF Forwarded(function)
       THEN /\ serving
            /\ creq' = [creq EXCEPT ![c] = AttributeCommand(target, function)]
            /\ clog' = [clog EXCEPT ![c] = <<"attribute">>]
            /\ cpc' = [cpc EXCEPT ![c] = "attribute_sent"]
            /\ cout' = [cout EXCEPT ![c] = Pending]
       ELSE /\ cout' = [cout EXCEPT ![c] = Returned(PyNone)]
            /\ cpc' = [cpc EXCEPT ![c] = "done"]
            /\ UNCHANGED <<creq, clog>>
    /\ UNCHANGED <<cresp, cescaped, serverVars, codecVars, historyVars,
                   supervisorVars, threadVars, pipeVars>>

\* a peer writes a line of its own
RawSend(c, line) ==
    /\ cpc[c] = "idle" /\ serving
    /\ creq' = [creq EXCEPT ![c] = line]
    /\ cpc' = [cpc EXCEPT ![c] = "raw_sent"]
    /\ UNCHANGED <<ccall, cresp, cescaped, cout, clog, serverVars, codecVars, historyVars,
                   supervisorVars, threadVars, pipeVars>>

\* the text a written Response is, "exception" or "success"
StatusOf(written) ==
    IF Len(written) = 1 /\ written[1].j = "object"
    THEN DictGetDefault(JsonValue(written[1]), "status", PyStr("invalid")).v
    ELSE "none"

\* the ComplicatedObject a client-side argument denotes
Denoted(arg) ==
    IF arg.k = "RemoteVar" /\ arg.v.v \in DOMAIN issued THEN issued[arg.v.v] ELSE arg

\* the ComplicatedObject instances Commands on their way will create
Creating ==
    {c \in Clients : /\ cpc[c] = "function_sent"
                     /\ ccall[c].function = "create_complicated_object"
                     /\ ccall[c].args = <<>>}

\* what the server task of client c's connection leaves behind when
\* handle_request gave h
Served(c, h) ==
    LET call == ccall[c]
        asked(function) ==
            /\ cpc[c] = "function_sent" /\ call.function = function
            /\ call.target = "TargetClass"
    IN  /\ table' = h.tb
        /\ heap' = h.heap
        /\ cresp' = [cresp EXCEPT ![c] = h.written]
        /\ cescaped' = [cescaped EXCEPT ![c] = h.escaped]
        /\ had_exception' = (had_exception \/ StatusOf(h.written) = "exception")
        /\ issued' = [id \in DOMAIN h.tb.vars |->
                         IF id \in DOMAIN issued THEN issued[id] ELSE h.tb.vars[id]]
        /\ expect' =
              IF Len(h.heap) > Len(heap) THEN Append(expect, PyInt(0))
              ELSE IF asked("set_co") /\ IsComplicatedObject(Denoted(call.args[1]))
              THEN [expect EXCEPT ![Denoted(call.args[1]).addr] = call.args[2]]
              ELSE expect
        /\ cexpect' =
              [cexpect EXCEPT ![c] =
                  IF asked("get_co") /\ IsComplicatedObject(Denoted(call.args[1]))
                  THEN expect[Denoted(call.args[1]).addr]
                  ELSE PyNone]
        /\ cafter' = [cafter EXCEPT ![c] = had_exception]

\* the server task of client c's connection: handle_request on the line sent
Serve(c) ==
    /\ serving
    /\ cpc[c] \in {"attribute_sent", "function_sent", "raw_sent"}
    /\ Served(c, handle_request(creq[c], target_classes, table, heap))
    /\ cpc' = [cpc EXCEPT ![c] =
                  CASE cpc[c] = "attribute_sent" -> "attribute_answered"
                    [] cpc[c] = "function_sent" -> "function_answered"
                    [] cpc[c] = "raw_sent" -> "raw_answered"]
    /\ UNCHANGED <<server_up, serving, target_classes, ccall, creq, cout, clog,
                   codecVars, run_out,
                   supervisorVars, threadVars, pipeVars>>

\* Responses a peer that is not this server may write: no status, a status
\* that is neither "success" nor "exception" (of another spelling, a number,
\* null), then a callable, a value, an exception Response, and JSON that is
\* no object
Replies ==
    <<JObject(<<Item("return", JObject(<<Item("type", JString("int")),
                                           Item("value", JInt(1))>>))>>),
      JObject(<<>>),
      JObject(<<Item("status", JString("invalid")),
                Item("message", JString("m")),
                Item("traceback", JObject(<<>>))>>),
      JObject(<<Item("status", JString("Success")),
                Item("return", JObject(<<Item("type", JString("int")),
                                         Item("value", JInt(1))>>))>>),
      JObject(<<Item("status", JInt(5))>>),
      JObject(<<Item("status", JNull)>>),
      JObject(<<Item("status", JString("success")),
                Item("return", JObject(<<Item("type", JString("callable")),
                                         Item("value", JNull)>>))>>),
      JObject(<<Item("status", JString("success")),
                Item("return", JObject(<<Item("type", JString("int")),
                                         Item("value", JInt(1))>>))>>),
      JObject(<<Item("status", JString("exception")),
                Item("message", JString("m")),
                Item("traceback", JObject(<<>>))>>),
      JArray(<<>>)>>

\* the peer at the address answers client c's Command with a line of its own
Answer(c, line) ==
    /\ serving
    /\ cpc[c] \in {"attribute_sent", "function_sent"}
    /\ cresp' = [cresp EXCEPT ![c] = <<line>>]
    /\ cpc' = [cpc EXCEPT ![c] =
                  IF cpc[c] = "attribute_sent" THEN "attribute_answered"
                  ELSE "function_answered"]
    /\ UNCHANGED <<ccall, creq, cescaped, cout, clog, serverVars, codecVars, historyVars,
                   supervisorVars, threadVars, pipeVars>>

\* the line the client reads: the Response, or no text when none was written
ResponseRead(c) == IF Len(cresp[c]) = 1 THEN cresp[c][1] ELSE JMalformed

\* Proxy.__getattr__ from the answer on
AttributeAnswered(c) ==
    /\ cpc[c] = "attribute_answered"
    /\ cout' = [cout EXCEPT ![c] = AttributeOutcome(ResponseRead(c))]
    /\ cpc' = [cpc EXCEPT ![c] = "done"]
    /\ UNCHANGED <<ccall, creq, cresp, cescaped, clog, serverVars, codecVars, historyVars,
                   supervisorVars, threadVars, pipeVars>>

\* handle_call(*args) on the invoker an access gave, with the i-th argument
\* list the member is called with: up to the sending of the function Command
Call(c, i) ==
    /\ (cpc[c] = "done" /\ cout[c] = Invoker) \/ cpc[c] = "called"
    /\ Len(clog[c]) <= MaxCalls
    /\ i \in DOMAIN ArgsFor(ccall[c].function)
    /\ LET args == ArgsFor(ccall[c].function)[i]
       IN  /\ ccall[c].function = "create_complicated_object" /\ args = <<>>
                => Len(heap) + Cardinality(Creating) < MaxObjs
           /\ ccall' = [ccall EXCEPT ![c].args = args]
           /\ creq' = [creq EXCEPT ![c] =
                          FunctionCommand(ccall[c].target, ccall[c].function, args, <<>>)]
    /\ clog' = [clog EXCEPT ![c] = Append(@, "function")]
    /\ cpc' = [cpc EXCEPT ![c] = "function_sent"]
    /\ cout' = [cout EXCEPT ![c] = Pending]
    /\ UNCHANGED <<cresp, cescaped, serverVars, codecVars, historyVars,
                   supervisorVars, threadVars, pipeVars>>

\* handle_call([r]) on the invoker an access gave, r the reference of the
\* given id: up to the sending of the function Command
CallList(c, id) ==
    /\ (cpc[c] = "done" /\ cout[c] = Invoker) \/ cpc[c] = "called"
    /\ Len(clog[c]) <= MaxCalls
    /\ LET args == <<PyList(<<RemoteVar(PyStr(id))>>)>>
       IN  /\ ccall' = [ccall EXCEPT ![c].args = args]
           /\ creq' = [creq EXCEPT ![c] =
                          FunctionCommand(ccall[c].target, ccall[c].function, args, <<>>)]
    /\ clog' = [clog EXCEPT ![c] = Append(@, "function")]
    /\ cpc' = [cpc EXCEPT ![c] = "function_sent"]
    /\ cout' = [cout EXCEPT ![c] = Pending]
    /\ UNCHANGED <<cresp, cescaped, serverVars, codecVars, historyVars,
                   supervisorVars, threadVars, pipeVars>>

\* handle_call from the answer on
FunctionAnswered(c) ==
    /\ cpc[c] = "function_answered"
    /\ cout' = [cout EXCEPT ![c] = CallOutcome(ResponseRead(c))]
    /\ cpc' = [cpc EXCEPT ![c] = "called"]
    /\ UNCHANGED <<ccall, creq, cresp, cescaped, clog, serverVars, codecVars, historyVars,
                   supervisorVars, threadVars, pipeVars>>

\* the peer reads the answer to its line with unpack_result
RawAnswered(c) ==
    /\ cpc[c] = "raw_answered"
    /\ cout' = [cout EXCEPT ![c] = unpack_result(ResponseRead(c))]
    /\ cpc' = [cpc EXCEPT ![c] = "done"]
    /\ UNCHANGED <<ccall, creq, cresp, cescaped, clog, serverVars, codecVars, historyVars,
                   supervisorVars, threadVars, pipeVars>>

\* the caller is done with the value, the error or the invoker
Finish(c) ==
    /\ cpc[c] \in {"done", "called"}
    /\ cpc' = [cpc EXCEPT ![c] = "idle"]
    /\ ccall' = [ccall EXCEPT ![c] = NoCall]
    /\ creq' = [creq EXCEPT ![c] = NoData]
    /\ cresp' = [cresp EXCEPT ![c] = <<>>]
    /\ cescaped' = [cescaped EXCEPT ![c] = "none"]
    /\ cout' = [cout EXCEPT ![c] = Pending]
    /\ clog' = [clog EXCEPT ![c] = <<>>]
    /\ cexpect' = [cexpect EXCEPT ![c] = PyNone]
    /\ cafter' = [cafter EXCEPT ![c] = FALSE]
    /\ UNCHANGED <<serverVars, codecVars, issued, expect, had_exception, run_out,
                   supervisorVars, threadVars, pipeVars>>

(***************************************************************************)
(* The supervisor and its callers.                                         *)
(***************************************************************************)
\* the supervisor state the methods work on
Supervisor ==
    [instances |-> instances, server_exe |-> server_exe, server_py |-> server_py,
     process |-> process, references |-> references]

Becomes(st) ==
    /\ instances' = st.instances
    /\ server_exe' = st.server_exe
    /\ server_py' = st.server_py
    /\ process' = st.process
    /\ references' = st.references

NoWindow == [obj |-> 0, acquires |-> 0, launches |-> 0, found_alive |-> FALSE]

\* nothing constructed yet, in the environment e
InitSupervisor(e) ==
    /\ instances = [path \in Paths |-> 0]
    /\ server_exe = [o \in Objects |-> None]
    /\ server_py = [o \in Objects |-> None]
    /\ process = [o \in Objects |-> "none"]
    /\ references = [o \in Objects |-> {}]
    /\ env = e
    /\ outcome = [op |-> "none", exc |-> "none", cmd |-> "none"]
    /\ window = NoWindow

InitThreads ==
    /\ tpc = [t \in Callers |-> "idle"]
    /\ holding = [t \in Callers |-> FALSE]

\* RunServer(caller, server_exe=exe, server_py=py)
Acquire(caller, exe, py) ==
    LET r == RunServer_call(Supervisor, caller, exe, py, env)
        found == InstancesGet(Supervisor, exe, 0) # 0 \/ InstancesGet(Supervisor, py, 0) # 0
    IN  /\ found \/ Unused(Supervisor) # 0
        /\ window.acquires < MaxAcquires
        /\ Becomes(r.st)
        /\ outcome' = [op |-> "acquire", exc |-> r.exc, cmd |-> r.cmd]
        /\ window' =
              IF r.exc # "none" THEN window
              ELSE IF window.obj = r.obj
              THEN [window EXCEPT !.acquires = @ + 1,
                                  !.launches = @ + (IF r.launched THEN 1 ELSE 0)]
              ELSE [obj |-> r.obj, acquires |-> 1,
                    launches |-> IF r.launched THEN 1 ELSE 0,
                    found_alive |-> Alive(process[r.obj])]
        /\ UNCHANGED <<env, serverVars, codecVars, clientVars, historyVars, threadVars, pipeVars>>

\* self.release(caller) on a constructed object
Release(self, caller) ==
    /\ \E path \in Paths : instances[path] = self
    /\ Becomes(RunServer_release(Supervisor, self, caller))
    /\ outcome' = [op |-> "release", exc |-> "none", cmd |-> "none"]
    /\ window' = NoWindow
    /\ UNCHANGED <<env, serverVars, codecVars, clientVars, historyVars, threadVars, pipeVars>>

\* the server process of an object dies on its own
Crash(self) ==
    /\ process[self] = "running"
    /\ process' = [process EXCEPT ![self] = "exited"]
    /\ window' = NoWindow
    /\ UNCHANGED <<instances, server_exe, server_py, references, env, outcome,
                   serverVars, codecVars, clientVars, historyVars, threadVars, pipeVars>>

\* a server process that was signalled to terminate exits
Exit(self) ==
    /\ process[self] = "terminating"
    /\ process' = [process EXCEPT ![self] = "exited"]
    /\ window' = NoWindow
    /\ UNCHANGED <<instances, server_exe, server_py, references, env, outcome,
                   serverVars, codecVars, clientVars, historyVars, threadVars, pipeVars>>

(***************************************************************************)
(* Threads on one RunServer object, a statement at a time.  The object is  *)
(* object 1, constructed for server.exe, which exists; a thread t is the   *)
(* caller t.  A thread constructs RunServer with the same path (lines 76   *)
(* to 111 change nothing then) and later calls release.                    *)
(***************************************************************************)
Shared == 1

InitShared ==
    /\ instances = [path \in Paths |-> IF path = "server.exe" THEN Shared ELSE 0]
    /\ server_exe = [o \in Objects |-> IF o = Shared THEN "server.exe" ELSE None]
    /\ server_py = [o \in Objects |-> None]
    /\ process = [o \in Objects |-> "none"]
    /\ references = [o \in Objects |-> {}]
    /\ env = [files |-> {"server.exe"}, interpreter |-> TRUE]
    /\ outcome = [op |-> "none", exc |-> "none", cmd |-> "none"]
    /\ window = NoWindow

Goes(t, pc) == tpc' = [tpc EXCEPT ![t] = pc]

\* line 113: if not self._process or self._process.poll() is not None
CheckProcess(t) ==
    /\ tpc[t] = "idle" /\ ~holding[t]
    /\ Goes(t, IF NeedsLaunch(process[Shared]) THEN "run_poll" ELSE "add")
    /\ UNCHANGED <<holding, supervisorVars, serverVars, codecVars, clientVars, historyVars, pipeVars>>

\* line 190, in run_server or in release:
\* if self._process and self._process.poll() is None
PollProcess(t) ==
    /\ tpc[t] \in {"run_poll", "release_poll"}
    /\ Goes(t, CASE tpc[t] = "run_poll" /\ Alive(process[Shared]) -> "run_clear"
                 [] tpc[t] = "run_poll" /\ ~Alive(process[Shared]) -> "popen"
                 [] tpc[t] = "release_poll" /\ Alive(process[Shared]) -> "release_clear"
                 [] tpc[t] = "release_poll" /\ ~Alive(process[Shared]) -> "idle")
    /\ UNCHANGED <<holding, supervisorVars, serverVars, codecVars, clientVars, historyVars, pipeVars>>

\* line 193: self._references = set()
ClearReferences(t) ==
    /\ tpc[t] \in {"run_clear", "release_clear"}
    /\ references' = [references EXCEPT ![Shared] = {}]
    /\ Goes(t, IF tpc[t] = "run_clear" THEN "run_signal" ELSE "release_signal")
    /\ UNCHANGED <<holding, instances, server_exe, server_py, process, env, outcome, window,
                   serverVars, codecVars, clientVars, historyVars, pipeVars>>

\* line 194: self._process.terminate()
SignalProcess(t) ==
    /\ tpc[t] \in {"run_signal", "release_signal"}
    /\ process' = [process EXCEPT ![Shared] = IF Alive(@) THEN "terminating" ELSE @]
    /\ Goes(t, IF tpc[t] = "run_signal" THEN "popen" ELSE "idle")
    /\ UNCHANGED <<holding, instances, server_exe, server_py, references, env, outcome,
                   window, serverVars, codecVars, clientVars, historyVars, pipeVars>>

\* lines 201 to 219: the launch policy and subprocess.Popen
Popen(t) ==
    /\ tpc[t] = "popen"
    /\ LaunchPolicy(server_exe[Shared], server_py[Shared], env) # "FileNotFoundError"
    /\ process' = [process EXCEPT ![Shared] = "running"]
    /\ Goes(t, "add")
    /\ UNCHANGED <<holding, instances, server_exe, server_py, references, env, outcome,
                   window, serverVars, codecVars, clientVars, historyVars, pipeVars>>

\* line 117: self._references.add(self.get_id(caller)), which ends __init__
AddReference(t) ==
    /\ tpc[t] = "add"
    /\ references' = [references EXCEPT ![Shared] = @ \cup {get_id(t)}]
    /\ holding' = [holding EXCEPT ![t] = TRUE]
    /\ Goes(t, "idle")
    /\ UNCHANGED <<instances, server_exe, server_py, process, env, outcome, window,
                   serverVars, codecVars, clientVars, historyVars, pipeVars>>

\* release is called; line 230: self._references.remove(self.get_id(caller))
RemoveReference(t) ==
    /\ tpc[t] = "idle" /\ holding[t]
    /\ references' = [references EXCEPT ![Shared] = @ \ {get_id(t)}]
    /\ holding' = [holding EXCEPT ![t] = FALSE]
    /\ Goes(t, "release_check")
    /\ UNCHANGED <<instances, server_exe, server_py, process, env, outcome, window,
                   serverVars, codecVars, clientVars, historyVars, pipeVars>>

\* line 231: if not self._references
CheckEmpty(t) ==
    /\ tpc[t] = "release_check"
    /\ Goes(t, IF references[Shared] = {} THEN "release_poll" ELSE "idle")
    /\ UNCHANGED <<holding, supervisorVars, serverVars, codecVars, clientVars, historyVars, pipeVars>>

\* the server process exits: on its own, or because it was signalled
ProcessExits ==
    /\ Alive(process[Shared])
    /\ process' = [process EXCEPT ![Shared] = "exited"]
    /\ UNCHANGED <<holding, tpc, instances, server_exe, server_py, references, env, outcome,
                   window, serverVars, codecVars, clientVars, historyVars, pipeVars>>

(***************************************************************************)
(* The PipeProxy and the server's pipe.                                    *)
(***************************************************************************)
InitPipeIdle ==
    /\ ppc = "idle"
    /\ pcmd = NoData
    /\ pdelay = InitialDelay
    /\ pslept = 0
    /\ pattempts = 0
    /\ pendpoint = FALSE
    /\ pappeared = -1
    /\ pmissing = FALSE
    /\ perr = "none"
    /\ pout = NoData

\* _send_to_server_binary(command) is called: delay = 0.03
PipeSend(i) ==
    /\ ppc = "idle"
    /\ ppc' = "attempt"
    /\ pcmd' = PipeCommands[i]
    /\ pdelay' = InitialDelay
    /\ pslept' = 0
    /\ pattempts' = 0
    /\ pappeared' = -1
    /\ pmissing' = ~pendpoint
    /\ perr' = "none"
    /\ pout' = NoData
    /\ UNCHANGED <<pendpoint, serverVars, codecVars, clientVars, historyVars,
                   supervisorVars, threadVars>>

\* one pass of the loop up to time.sleep: CallNamedPipe does what `result`
\* says, and the except block decides
PipeAttempt(result) ==
    /\ ppc = "attempt"
    /\ result \in CallNamedPipe(pendpoint)
    /\ pattempts' = pattempts + 1
    /\ IF result = "reply"
       THEN /\ ppc' = "returned"
            /\ pout' = PipeReply(pcmd)
            /\ UNCHANGED perr
       ELSE IF PipeOnError(result, pdelay) = "raise"
       THEN /\ ppc' = "raised"
            /\ perr' = result
            /\ UNCHANGED pout
       ELSE /\ ppc' = "sleeping"
            /\ UNCHANGED <<perr, pout>>
    /\ UNCHANGED <<pcmd, pdelay, pslept, pendpoint, pappeared, pmissing,
                   serverVars, codecVars, clientVars, historyVars,
                   supervisorVars, threadVars>>

\* time.sleep(delay) returns; delay *= 1.5
PipeWake ==
    /\ ppc = "sleeping"
    /\ pslept' = pslept + pdelay
    /\ pdelay' = Grow(pdelay)
    /\ ppc' = "attempt"
    /\ UNCHANGED <<pcmd, pattempts, pendpoint, pappeared, pmissing, perr, pout,
                   serverVars, codecVars, clientVars, historyVars,
                   supervisorVars, threadVars>>

\* the server creates its pipe (main_pipe); during a call, the time slept so
\* far is kept
EndpointAppears ==
    /\ ~pendpoint
    /\ pendpoint' = TRUE
    /\ pappeared' = IF ppc \in {"attempt", "sleeping"} THEN pslept ELSE pappeared
    /\ UNCHANGED <<ppc, pcmd, pdelay, pslept, pattempts, pmissing, perr, pout,
                   serverVars, codecVars, clientVars, historyVars,
                   supervisorVars, threadVars>>

\* the server process ends while no call is under way
EndpointVanishes ==
    /\ pendpoint /\ ppc = "idle"
    /\ pendpoint' = FALSE
    /\ UNCHANGED <<ppc, pcmd, pdelay, pslept, pattempts, pappeared, pmissing, perr, pout,
                   serverVars, codecVars, clientVars, historyVars,
                   supervisorVars, threadVars>>

\* the caller has the bytes or the error
PipeFinish ==
    /\ ppc \in {"returned", "raised"}
    /\ ppc' = "idle"
    /\ pcmd' = NoData
    /\ pdelay' = InitialDelay
    /\ pslept' = 0
    /\ pattempts' = 0
    /\ pappeared' = -1
    /\ pmissing' = FALSE
    /\ perr' = "none"
    /\ pout' = NoData
    /\ UNCHANGED <<pendpoint, serverVars, codecVars, clientVars, historyVars,
                   supervisorVars, threadVars>>

(***************************************************************************)
(* Specifications.                                                         *)
(***************************************************************************)
vars == <<serverVars, codecVars, clientVars, historyVars, supervisorVars, threadVars, pipeVars>>

\* no value under conversion
InitCodecIdle == cv = PyNone /\ InitCodecRest

\* no supervisor constructed and no thread at work
InitNoSupervisor ==
    /\ InitSupervisor([files |-> {}, interpreter |-> FALSE])
    /\ InitThreads

InitCodec ==
    /\ InitNoSupervisor
    /\ InitServer
    /\ InitClients
    /\ InitHistory
    /\ InitCodecRest
    /\ cv \in PrimitiveValues \cup OtherValues
    /\ InitPipeIdle

NextCodec == EncodeServer \/ EncodeClient \/ DecodeClient \/ DecodeServer

SpecCodec == InitCodec /\ [][NextCodec]_vars

InitServing ==
    /\ InitNoSupervisor
    /\ InitServer
    /\ InitClients
    /\ InitHistory
    /\ InitCodecIdle
    /\ InitPipeIdle

NextServing ==
    \/ /\ ~serving
       /\ \E served \in ServedChoices, listen \in {"tcp", "pipe", "none"} :
             run_server(served, listen)
    \/ \E c \in Clients, i \in DOMAIN Members : Access(c, Members[i][1], Members[i][2])
    \/ \E c \in Clients, i \in DOMAIN RawLines : RawSend(c, RawLines[i])
    \/ \E c \in Clients : Serve(c)
    \/ \E c \in Clients : AttributeAnswered(c)
    \/ \E c \in Clients, i \in {1, 2, 3} : Call(c, i)
    \/ \E c \in Clients : FunctionAnswered(c)
    \/ \E c \in Clients : RawAnswered(c)
    \/ \E c \in Clients : Finish(c)

\* the server's main thread calls run_server while asyncio.run has not taken it
SpecServing == InitServing /\ [][NextServing]_vars

\* the supervisor under calls made one after the other
Init ==
    /\ \E e \in Environments : InitSupervisor(e)
    /\ InitThreads
    /\ InitServer
    /\ InitClients
    /\ InitHistory
    /\ InitCodecIdle
    /\ InitPipeIdle

Next ==
    \/ \E caller \in Callers, exe \in ExePaths \cup {None}, py \in PyPaths \cup {None} :
          Acquire(caller, exe, py)
    \/ \E self \in Objects, caller \in Callers : Release(self, caller)
    \/ \E self \in Objects : Crash(self)
    \/ \E self \in Objects : Exit(self)

Spec == Init /\ [][Next]_vars

\* the supervisor under calls made by threads
InitThreaded ==
    /\ InitShared
    /\ InitThreads
    /\ InitServer
    /\ InitClients
    /\ InitHistory
    /\ InitCodecIdle
    /\ InitPipeIdle

NextThreaded ==
    \/ \E t \in Callers : CheckProcess(t)
    \/ \E t \in Callers : PollProcess(t)
    \/ \E t \in Callers : ClearReferences(t)
    \/ \E t \in Callers : SignalProcess(t)
    \/ \E t \in Callers : Popen(t)
    \/ \E t \in Callers : AddReference(t)
    \/ \E t \in Callers : RemoveReference(t)
    \/ \E t \in Callers : CheckEmpty(t)
    \/ ProcessExits

SpecThreaded == InitThreaded /\ [][NextThreaded]_vars

\* the members accessed on a peer that is not this server
PeerMembers == {<<"TargetClass", "get_double">>, <<"Param", "PARAM1">>}

\* Proxies whose Commands a peer that is not this server answers
NextPeer ==
    \/ \E served \in ServedChoices, listen \in {"tcp", "pipe", "none"} :
          run_server(served, listen)
    \/ \E c \in Clients, m \in PeerMembers : Access(c, m[1], m[2])
    \/ \E c \in Clients, i \in DOMAIN Replies : Answer(c, Replies[i])
    \/ \E c \in Clients : AttributeAnswered(c)
    \/ \E c \in Clients, i \in {1, 2} : Call(c, i)
    \/ \E c \in Clients : FunctionAnswered(c)
    \/ \E c \in Clients : Finish(c)

SpecPeer == InitServing /\ [][NextPeer]_vars

\* the members accessed while run_server is called again
RerunMembers == {<<"TargetClass", "create_complicated_object">>, <<"Param", "PARAM1">>}

\* run_server called at any time, also from another thread of the serving
\* process, with clients that make the server issue references
NextRerun ==
    \/ \E served \in ServedChoices, listen \in {"tcp", "pipe", "none"} :
          run_server(served, listen)
    \/ \E c \in Clients, m \in RerunMembers : Access(c, m[1], m[2])
    \/ \E c \in Clients : Serve(c)
    \/ \E c \in Clients : AttributeAnswered(c)
    \/ \E c \in Clients : Call(c, 1)
    \/ \E c \in Clients : FunctionAnswered(c)
    \/ \E c \in Clients : Finish(c)

SpecRerun == InitServing /\ [][NextRerun]_vars

\* the members accessed by clients that have the server store objects
TableMembers == {"create_complicated_object", "get_double"}

\* clients that create objects and have get_double double a list holding a
\* reference, which stores the object it denotes again, twice
NextTable ==
    \/ /\ ~serving
       /\ \E served \in ServedChoices, listen \in {"tcp", "pipe"} :
             run_server(served, listen)
    \/ \E c \in Clients, function \in TableMembers : Access(c, "TargetClass", function)
    \/ \E c \in Clients : Serve(c)
    \/ \E c \in Clients : AttributeAnswered(c)
    \/ \E c \in Clients : Call(c, 1)
    \/ /\ table.count < MaxRefs
       /\ \E c \in Clients, id \in {"1", "2"} : CallList(c, id)
    \/ \E c \in Clients : FunctionAnswered(c)
    \/ \E c \in Clients : Finish(c)

SpecTable == InitServing /\ [][NextTable]_vars

\* the PipeProxy against a pipe that may not exist yet
InitPipe ==
    /\ InitNoSupervisor
    /\ InitServer
    /\ InitClients
    /\ InitHistory
    /\ InitCodecIdle
    /\ InitPipeIdle

NextPipe ==
    \/ \E i \in DOMAIN PipeCommands : PipeSend(i)
    \/ \E result \in {"reply", ERROR_FILE_NOT_FOUND} \cup OtherErrors : PipeAttempt(result)
    \/ PipeWake
    \/ EndpointAppears
    \/ EndpointVanishes
    \/ PipeFinish

SpecPipe == InitPipe /\ [][NextPipe]_vars

\* the client's thread goes on: CallNamedPipe and time.sleep return
SpecPipeFair ==
    /\ SpecPipe
    /\ WF_vars(\E result \in {"reply", ERROR_FILE_NOT_FOUND} \cup OtherErrors :
                  PipeAttempt(result))
    /\ WF_vars(PipeWake)

(***************************************************************************)
(* Claims.                                                                 *)
(***************************************************************************)
\* the text of the tagged value {"type": t, "value": jv}
JTagged(t, jv) == JObject(<<Item("type", JString(t)), Item("value", jv)>>)

\* C8: a value built from null, booleans, integers, strings and nested lists
\* of these is written by either codec, and what either codec reads back from
\* that text is the value itself, every element of the same kind.
C8_RoundTrip ==
    cv \in PrimitiveValues =>
        /\ cenc # "none" => cwire.ok
        /\ cdec # "none" => cback = Ok(cv)

\* a list nested in a list and holding a boolean went from the client to the
\* server and came out as it was
C8_Witness ==
    /\ cv = PyList(<<PyList(<<PyBool(TRUE)>>)>>)
    /\ cenc = "client" /\ cdec = "server"
    /\ cback = Ok(cv)

\* the new entry of the Reference Table holds cv under the next counter value,
\* and only that id was written
StoredByReference ==
    /\ table.count = cprev.count + 1
    /\ DOMAIN table.vars = DOMAIN cprev.vars \cup {ToString(table.count)}
    /\ table.vars[ToString(table.count)] = cv
    /\ cwire = Ok(JTagged("RemoteVar", JString(ToString(table.count))))

\* C9 as claimed: a result that is not null, a boolean, an integer, a float, a
\* string or a list (a tuple is written as a list) is stored in the Reference
\* Table and only its id is sent.
C9_OnlyListsByValue ==
    (cenc = "server"
        /\ cv.k \notin {"NoneType", "bool", "int", "float", "str", "list", "tuple"})
        => StoredByReference

\* C9 as amended: a result whose type is not a builtin type (an instance of a
\* served class, a function) is stored in the Reference Table and only its id
\* is sent, also as an element of a list; a dict is a builtin type and is
\* written by value under the tag "dict", the table untouched.
C9_NonBuiltinByReference ==
    cenc = "server" =>
        /\ cv.k \in {"object", "function"} => StoredByReference
        /\ cv.k = "dict" =>
              /\ cwire.ok /\ cwire.val = JTagged("dict", json_dumps(cv).val)
              /\ table = cprev
        /\ cv.k = "list" =>
              \A i \in 1..Len(cv.v) :
                  cv.v[i].k \in {"object", "function"} =>
                      /\ cwire.ok
                      /\ cwire.val.v[i].v[1] = Item("type", JString("RemoteVar"))
                      /\ cwire.val.v[i].v[2].val.v \in DOMAIN table.vars \ DOMAIN cprev.vars
                      /\ table.vars[cwire.val.v[i].v[2].val.v] = cv.v[i]

\* a list of two instances was written as two references
C9_Witness ==
    /\ cenc = "server"
    /\ cv = PyList(<<PyObj("ComplicatedObject", 1), PyInt(1), PyObj("ComplicatedObject", 2)>>)
    /\ table.count = 2

(***************************************************************************)
(* Claims on the dispatcher and the Proxy.                                 *)
(***************************************************************************)
Sent == {"attribute_sent", "function_sent", "raw_sent"}
Answered == {"attribute_answered", "function_answered", "raw_answered"}

\* the Response written to client c's connection, as a Python value
ResponseOf(c) == JsonValue(cresp[c][1])

\* the tagged value a success Response carries
ReturnOf(c) == DictGet(ResponseOf(c), PyStr("return"))

\* client c's line is one that cannot succeed: no Command at all, an unknown
\* target, an unknown member, an unknown reference id, or arguments the
\* function called does not take
MustFail(c) ==
    \/ cpc[c] = "raw_answered"
    \/ ccall[c].target = "Nope"
    \/ ccall[c].function = "missing"
    \/ /\ cpc[c] = "function_answered"
       /\ \/ ccall[c].args = <<RemoteVar(PyStr("9"))>>
          \/ ccall[c].function = "create_complicated_object" /\ ccall[c].args # <<>>
          \/ ccall[c].function = "get_double" /\ ccall[c].args = <<>>

\* C4: whatever non-empty line a connection delivered, no exception left
\* handle_request and exactly one Response was written; it is a success or an
\* exception Response, an exception Response carries a message and a
\* traceback, and a line that cannot succeed is answered with an exception
\* Response.
C4_NoFailureEscapes ==
    \A c \in Clients :
        cpc[c] \in Answered /\ creq[c] # NoData =>
            /\ cescaped[c] = "none"
            /\ Len(cresp[c]) = 1
            /\ cresp[c][1].j = "object"
            /\ StatusOf(cresp[c]) \in {"success", "exception"}
            /\ StatusOf(cresp[c]) = "exception" =>
                  /\ DictHas(ResponseOf(c), PyStr("message"))
                  /\ DictGet(ResponseOf(c), PyStr("message")).k = "str"
                  /\ DictHas(ResponseOf(c), PyStr("traceback"))
                  /\ DictGet(ResponseOf(c), PyStr("traceback")).k = "dict"
            /\ MustFail(c) => StatusOf(cresp[c]) = "exception"

\* text that is no JSON was answered with one exception Response, and a call
\* with an unknown reference id was, too
C4_Witness ==
    /\ cpc[1] = "raw_answered" /\ creq[1] = JMalformed
    /\ Len(cresp[1]) = 1 /\ StatusOf(cresp[1]) = "exception"
    /\ cpc[2] = "function_answered" /\ ccall[2].args = <<RemoteVar(PyStr("9"))>>
    /\ Len(cresp[2]) = 1 /\ StatusOf(cresp[2]) = "exception"

\* client c's Command names a served object, a member it has, arguments the
\* member takes and only reference ids the server has issued
WellFormed(c) ==
    \/ /\ cpc[c] = "attribute_sent"
       /\ ccall[c].target \in DOMAIN target_classes
       /\ ccall[c].function \in DOMAIN target_classes[ccall[c].target].attrs
    \/ /\ cpc[c] = "function_sent"
       /\ ccall[c].target = "TargetClass"
       /\ \/ ccall[c].function = "create_complicated_object" /\ ccall[c].args = <<>>
          \/ ccall[c].function = "get_double" /\ ccall[c].args = <<PyInt(21)>>
          \/ /\ ccall[c].function \in {"set_co", "get_co"}
             /\ ccall[c].args[1].v.v \in DOMAIN issued

\* C5: once an exception Response has been written, every step leaves the
\* server serving, the Target Registry as it was and every entry of the
\* Reference Table in place, and the handling of a well-formed Command
\* answers it with a success Response.
C5_KeepsServing ==
    [][had_exception =>
          /\ serving /\ serving'
          /\ target_classes' = target_classes
          /\ \A id \in DOMAIN table.vars :
                id \in DOMAIN table'.vars /\ table'.vars[id] = table.vars[id]
          /\ \A c \in Clients :
                /\ cpc[c] \in Sent /\ cpc'[c] \in Answered /\ WellFormed(c) =>
                      StatusOf(cresp'[c]) = "success"]_vars

\* after an exception Response, a read through a reference issued before
\* was answered with the value set before
C5_Witness ==
    \E c \in Clients :
        /\ had_exception /\ cafter[c]
        /\ cpc[c] = "function_answered" /\ ccall[c].function = "get_co"
        /\ ccall[c].args = <<RemoteVar(PyStr("1"))>>
        /\ StatusOf(cresp[c]) = "success"
        /\ ReturnOf(c) = Tagged("int", PyInt(42))

\* the Commands client c has sent for its access are one attribute Command
\* followed by n function Commands
SentCommands(c, n) == clog[c] = <<"attribute">> \o [i \in 1..n |-> "function"]

\* C6 as claimed: an access to a member that is not underscore-named sends
\* one attribute Command and, when the answer is a success, gives the invoker
\* for the 'callable' sentinel and the decoded value for anything else, with
\* nothing more sent; each call of the invoker sends one function Command for
\* the same member and gives the decoded result.
C6_TwoPhase ==
    \A c \in Clients :
        /\ cpc[c] \in {"attribute_sent", "attribute_answered"} => SentCommands(c, 0)
        /\ cpc[c] = "done" /\ clog[c] # <<>> =>
              /\ SentCommands(c, 0)
              /\ StatusOf(cresp[c]) = "success" =>
                    IF ReturnOf(c) = CallableSentinel
                    THEN cout[c] = Invoker
                    ELSE cout[c] = Returned(Proxy_convert_argument_from_json(ReturnOf(c)).val)
        /\ cpc[c] \in {"function_sent", "function_answered", "called"} =>
              /\ \E n \in 1..Len(clog[c]) : SentCommands(c, n)
              /\ creq[c] = FunctionCommand(ccall[c].target, ccall[c].function,
                                           ccall[c].args, <<>>)
              /\ cpc[c] = "called" /\ StatusOf(cresp[c]) = "success" =>
                    cout[c] = Returned(Proxy_convert_argument_from_json(ReturnOf(c)).val)

\* the value the ComplicatedObject behind each reference id must hold
HeapAsExpected == \A a \in DOMAIN heap : heap[a] = expect[a]

\* C7: every reference id resolves to the object it was issued for, no two
\* ids to the same object, every object holds the value last set through a
\* reference to it, and a read through a reference the server had issued
\* gives its caller that value.
C7_ReferenceIdentity ==
    /\ \A id \in DOMAIN issued :
          id \in DOMAIN table.vars /\ table.vars[id] = issued[id]
    /\ \A id1, id2 \in DOMAIN issued : id1 # id2 => issued[id1] # issued[id2]
    /\ HeapAsExpected
    /\ \A c \in Clients :
          /\ ccall[c].function = "get_co" /\ ccall[c].target = "TargetClass"
          /\ cpc[c] \in {"function_answered", "called"}
          /\ cexpect[c] # PyNone
          => /\ StatusOf(cresp[c]) = "success"
             /\ ReturnOf(c) = Tagged("int", cexpect[c])
             /\ cpc[c] = "called" => cout[c] = Returned(cexpect[c])

\* r1 was set to 42 and r2 to 4, and the reads through r1 and r2 gave 42 and 4
C7_Witness ==
    /\ heap = <<PyInt(42), PyInt(4)>>
    /\ cpc[1] = "called" /\ ccall[1].function = "get_co"
    /\ ccall[1].args = <<RemoteVar(PyStr("1"))>> /\ cout[1] = Returned(PyInt(42))
    /\ cpc[2] = "called" /\ ccall[2].function = "get_co"
    /\ ccall[2].args = <<RemoteVar(PyStr("2"))>> /\ cout[2] = Returned(PyInt(4))

\* C10: an access or a call answered with an exception Response gives its
\* caller no value: it raises RemoteError, whose message ends with the
\* message of the Response.
C10_RemoteError ==
    \A c \in Clients :
        /\ cpc[c] \in {"done", "called"}
        /\ Len(cresp[c]) = 1 /\ StatusOf(cresp[c]) = "exception"
        => cout[c] = Raised("RemoteError",
                            "Server-side processing failed with "
                                \o DictGet(ResponseOf(c), PyStr("message")).v)

\* a call with an unknown reference id raised RemoteError naming the KeyError
C10_Witness ==
    \E c \in Clients :
        /\ cpc[c] = "called" /\ ccall[c].args = <<RemoteVar(PyStr("9"))>>
        /\ StatusOf(cresp[c]) = "exception"
        /\ cout[c] = Raised("RemoteError", "Server-side processing failed with KeyError")

(***************************************************************************)
(* Claims on the supervisor.                                               *)
(***************************************************************************)
\* C1: a step that takes a caller out of a holder set of two or more takes
\* out that caller only and leaves the object's process as it was; a step
\* that empties the holder set leaves no process running; and a process is
\* signalled to terminate only by a step that starts with at most one holder.
C1_LastReleaseTerminates ==
    [][\A self \in Objects :
          /\ Cardinality(references[self]) >= 2 /\ references'[self] # references[self]
             /\ references'[self] \subseteq references[self]
                => /\ Cardinality(references'[self]) = Cardinality(references[self]) - 1
                   /\ process'[self] = process[self]
          /\ references[self] # {} /\ references'[self] = {}
                => process'[self] # "running"
          /\ process[self] = "running" /\ process'[self] = "terminating"
                => Cardinality(references[self]) <= 1]_vars

\* caller 1 has released, caller 2 still holds the server, and it runs
C1_Witness ==
    /\ outcome.op = "release"
    /\ references[1] = {2}
    /\ process[1] = "running"

\* C2: in a run of constructions on one object with no release, crash or
\* exit in between, the process was launched once when the first of them
\* found none alive and not at all when it found one alive, and every holder
\* the run recorded is in the holder set.
C2_LaunchedOnce ==
    window.acquires >= 1 =>
        /\ window.launches = (IF window.found_alive THEN 0 ELSE 1)
        /\ Alive(process[window.obj])
        /\ references[window.obj] # {}

\* two callers constructed RunServer for one path, the second finding the
\* process the first had launched
C2_Witness ==
    /\ window.acquires = 2 /\ window.launches = 1
    /\ references[window.obj] = {1, 2}
    /\ process[window.obj] = "running"

\* C3 as claimed: whatever the interleaving, a thread that has acquired and
\* not called release is in the holder set, and no step signals the process
\* to terminate, or empties the holder set, while there is such a thread.
C3_NoLostUpdate ==
    [][/\ \A t \in Callers : holding'[t] => get_id(t) \in references'[Shared]
       /\ process[Shared] = "running" /\ process'[Shared] = "terminating"
             => \A t \in Callers : ~holding[t]
       /\ references[Shared] # {} /\ references'[Shared] = {}
             => \A t \in Callers : ~holding'[t]]_vars

\* the status of a Response that is a JSON object is "success" or "exception"
KnownStatus(response) ==
    LET status == DictGetDefault(JsonValue(response), "status", PyStr("invalid"))
    IN  status = PyStr("success") \/ status = PyStr("exception")

\* C11: when a Proxy reads a Response whose status is missing or is neither
\* "success" nor "exception", the access or call raises RuntimeError, which
\* is no RemoteError, gives no value, and sends nothing again; a line that
\* is no JSON object at all raises a local error too, never RemoteError.
C11_MalformedIsLocal ==
    [][\A c \in Clients :
          /\ cpc[c] \in {"attribute_answered", "function_answered"}
          /\ cpc'[c] # cpc[c]
          /\ ResponseRead(c).j # "object" \/ ~KnownStatus(ResponseRead(c))
          => /\ cout'[c].kind = "raise"
             /\ cout'[c].exc # "RemoteError"
             /\ ResponseRead(c).j = "object" => cout'[c].exc = "RuntimeError"
             /\ cpc'[c] \in {"done", "called"}
             /\ clog'[c] = clog[c]
             /\ creq'[c] = creq[c]]_vars

\* a call was answered with a Response that has no status, and RuntimeError
\* was raised
C11_Witness ==
    \E c \in Clients :
        /\ cpc[c] = "called"
        /\ cresp[c] = <<Replies[1]>>
        /\ cout[c].kind = "raise" /\ cout[c].exc = "RuntimeError"
        /\ clog[c] = <<"attribute", "function">>

\* C12: an access to a member whose name begins with an underscore is over
\* at once with None, having sent no Command and read no Response, in every
\* state of the server.
C12_UnderscoreLocal ==
    \A c \in Clients :
        ccall[c].function = "_private"
        => /\ cpc[c] = "done"
           /\ cout[c] = Returned(PyNone)
           /\ clog[c] = <<>>
           /\ creq[c] = NoData
           /\ cresp[c] = <<>>

\* an underscore-named member was accessed while the server holds references
\* and another client's Command is on its way
C12_Witness ==
    \E c, d \in Clients :
        /\ ccall[c].function = "_private" /\ cout[c] = Returned(PyNone)
        /\ cpc[d] = "function_sent"
        /\ table.count > 0

\* C13: a not-found error is propagated only after more than 2.0 time units
\* of sleeping and only if the pipe did not come into existence during the
\* call; and a call that found no pipe when it began, and whose pipe came
\* into existence within 2.0 time units, goes on to return the server's
\* reply, unless CallNamedPipe then fails for another reason.
C13_RetrySucceeds ==
    /\ [](ppc = "raised" /\ perr = ERROR_FILE_NOT_FOUND
             => pslept > MAX_TIMEOUT /\ pappeared = -1)
    /\ [](ppc = "returned" => pout = PipeReply(pcmd))
    /\ (/\ ppc \in {"attempt", "sleeping"}
        /\ pmissing /\ pappeared >= 0 /\ pappeared <= MAX_TIMEOUT)
          ~> (ppc = "returned" \/ (ppc = "raised" /\ perr \in OtherErrors))

\* the pipe came into existence during the third sleep, and the fourth
\* CallNamedPipe gave the reply
C13_Witness ==
    /\ ppc = "returned" /\ pmissing /\ pattempts = 4
    /\ pappeared > 0 /\ pappeared <= MAX_TIMEOUT
    /\ pout = PipeReply(pcmd)

\* C14 as claimed: no sleep begins once the time slept in the call exceeds
\* 2.0 time units, so the time slept when the not-found error is propagated
\* is that of the first sleep that crossed 2.0.
C14_StopsAtBudget ==
    ppc = "sleeping" => pslept <= MAX_TIMEOUT

\* C20: a CallNamedPipe that fails with another winerror than
\* ERROR_FILE_NOT_FOUND ends the call on that attempt with that error: no
\* sleep, the delay as it was, and no attempt after it, on the first attempt
\* or on a later one.
C20_OtherFailurePropagates ==
    [][/\ \A e \in OtherErrors :
             PipeAttempt(e) => /\ ppc' = "raised" /\ perr' = e
                               /\ pslept' = pslept /\ pdelay' = pdelay
       /\ ppc = "raised" => pattempts' = pattempts \/ ppc' = "idle"
       /\ ppc = "sleeping" /\ ppc' = "attempt" => perr = "none"]_vars

\* the third CallNamedPipe, after two not-found failures, failed because
\* every pipe instance was busy
C20_Witness ==
    /\ ppc = "raised" /\ perr = "ERROR_PIPE_BUSY"
    /\ pattempts = 3 /\ pslept > 0

\* the objects a path was recorded for as their executable or as their script
RecordedFor(exe, py) ==
    {o \in Objects : \/ exe # None /\ server_exe[o] = exe
                     \/ py # None /\ server_py[o] = py}

\* the object _instances gives for the paths, 0 when it gives none
Registered(exe, py) ==
    IF InstancesGet(Supervisor, exe, 0) # 0 THEN InstancesGet(Supervisor, exe, 0)
    ELSE InstancesGet(Supervisor, py, 0)

\* a path named differs from the one recorded for the object o
Differs(o, exe, py) ==
    \/ exe # None /\ server_exe[o] \notin {None, exe}
    \/ py # None /\ server_py[o] \notin {None, py}

C16_NoSecondStart ==
    [][server_up /\ run_out' # run_out
          => /\ run_out' = "RuntimeError"
             /\ UNCHANGED <<server_up, serving, target_classes, table, heap>>]_vars

\* run_server was called again while the server was serving and its
\* Reference Table held two references
C16_Witness ==
    /\ run_out = "RuntimeError" /\ serving
    /\ table.count = 2 /\ DOMAIN table.vars = {"1", "2"}

\* the reference ids numbered from m to n
IdsFrom(m, n) == {ToString(i) : i \in m..n}

\* C17: the requests of the clients being served in any order, every step
\* leaves the counter no smaller, the ids in the Reference Table are those
\* numbered 1 to the counter, the ids a step inserts are the next numbers
\* after the counter, no entry there before is changed or dropped, and a
\* reference a Response hands out is one the step that wrote it inserted.
C17_IdsInIssueOrder ==
    [][/\ table'.count >= table.count
       /\ DOMAIN table.vars = IdsFrom(1, table.count)
       /\ DOMAIN table'.vars = DOMAIN table.vars \cup IdsFrom(table.count + 1, table'.count)
       /\ \A id \in DOMAIN table.vars : table'.vars[id] = table.vars[id]
       /\ \A c \in Clients :
             /\ cpc[c] \in Sent /\ cpc'[c] \in Answered
             /\ StatusOf(cresp'[c]) = "success"
             => \A id \in DOMAIN table'.vars :
                   DictGet(JsonValue(cresp'[c][1]), PyStr("return"))
                      = Tagged("RemoteVar", PyStr(id))
                   => id \in IdsFrom(table.count + 1, table'.count)]_vars

\* the creations of the two clients were served one after the other: client 2
\* was given reference 1 and client 1 reference 2
C17_Witness ==
    /\ cpc[1] = "called" /\ cout[1] = Returned(RemoteVar(PyStr("2")))
    /\ cpc[2] = "called" /\ cout[2] = Returned(RemoteVar(PyStr("1")))
    /\ table.count = 2

\* the object a construction with the paths has worked on, 0 when it named
\* no path
Constructed(exe, py) ==
    IF exe # None THEN instances'[exe] ELSE IF py # None THEN instances'[py] ELSE 0

\* C18: a construction that finds the object's process never started or
\* exited launches a process and then adds the caller to the holders that
\* were there, all of whom stay; if the launch fails nobody is added and
\* nothing is launched; and a running process is signalled to terminate only
\* by the release that empties the holder set.
C18_RestartAfterCrash ==
    [][/\ \A caller \in Callers, exe \in ExePaths \cup {None}, py \in PyPaths \cup {None} :
             Acquire(caller, exe, py) =>
                /\ outcome'.exc = "none" /\ ~Alive(process[window'.obj])
                   => /\ window'.obj = Constructed(exe, py)
                      /\ outcome'.cmd # "none"
                      /\ process'[window'.obj] = "running"
                      /\ references'[window'.obj] =
                            references[window'.obj] \cup {get_id(caller)}
                /\ outcome'.exc = "FileNotFoundError"
                   => process' = process /\ references' = references
       /\ \A o \in Objects :
             process[o] = "running" /\ process'[o] = "terminating"
             => /\ outcome'.op = "release"
                /\ references'[o] = {}
                /\ Cardinality(references[o]) <= 1]_vars

\* caller 1 held the object when its process exited; the construction by
\* caller 2 launched a new one, and both are holders
C18_Witness ==
    /\ window.acquires = 1 /\ window.launches = 1 /\ ~window.found_alive
    /\ outcome.op = "acquire" /\ outcome.cmd # "none"
    /\ references[window.obj] = {1, 2}
    /\ process[window.obj] = "running"

\* C19: a construction that has to launch launches the executable whenever
\* the executable's file exists; launches the script when the executable's
\* file does not exist, the interpreter is python and the script's file
\* exists; and in every other case raises FileNotFoundError, launching
\* nothing.
C19_LaunchDecision ==
    [][\A caller \in Callers, exe \in ExePaths \cup {None}, py \in PyPaths \cup {None} :
          Acquire(caller, exe, py) =>
             LET o == Constructed(exe, py)
                 exe_exists == o # 0 /\ server_exe'[o] \in env.files
                 py_exists == o # 0 /\ server_py'[o] \in env.files
                 launching == IF o = 0 THEN TRUE ELSE ~Alive(process[o])
             IN  outcome'.exc # "ValueError" /\ launching
                 => /\ exe_exists
                       => /\ outcome'.exc = "none" /\ outcome'.cmd = "exe"
                          /\ process'[o] = "running"
                    /\ ~exe_exists /\ env.interpreter /\ py_exists
                       => /\ outcome'.exc = "none" /\ outcome'.cmd = "py"
                          /\ process'[o] = "running"
                    /\ ~exe_exists /\ ~(env.interpreter /\ py_exists)
                       => /\ outcome'.exc = "FileNotFoundError" /\ outcome'.cmd = "none"
                          /\ process' = process]_vars

\* the executable recorded does not exist, the script and the interpreter
\* do, and the script was launched
C19_Witness ==
    /\ outcome.op = "acquire" /\ outcome.cmd = "py"
    /\ window.obj # 0
    /\ server_exe[window.obj] = "server.exe" /\ "server.exe" \notin env.files
    /\ server_py[window.obj] = "server.py"
    /\ process[window.obj] = "running"

\* the reference ids a return value hands out, in the order it holds them
HandedOut(ret) ==
    LET id(x) == IF x.k = "dict" /\ DictGetDefault(x, "type", PyNone) = PyStr("RemoteVar")
                 THEN <<DictGet(x, PyStr("value")).v>> ELSE <<>>
    IN  IF ret.k = "list"
        THEN IF Len(ret.v) = 2 THEN id(ret.v[1]) \o id(ret.v[2])
             ELSE IF Len(ret.v) = 1 THEN id(ret.v[1]) ELSE <<>>
        ELSE id(ret)

\* C21: in every state the keys of the Reference Table are the strings of 1
\* to the counter and every id the server has issued is converted back to
\* the object it was issued for; no step lowers the counter, removes an
\* entry or binds it to another object; and the ids a Response hands out are
\* the next numbers after the counter, one for every object stored, also
\* when the object stored is one the table holds already.
C21_TableOnlyGrows ==
    [][/\ DOMAIN table.vars = IdsFrom(1, table.count)
       /\ \A id \in DOMAIN issued :
             ServerUntag(Tagged("RemoteVar", PyStr(id)), table) = Ok(issued[id])
       /\ table'.count >= table.count
       /\ \A id \in DOMAIN table.vars :
             id \in DOMAIN table'.vars /\ table'.vars[id] = table.vars[id]
       /\ \A c \in Clients :
             /\ cpc[c] \in Sent /\ cpc'[c] \in Answered
             /\ StatusOf(cresp'[c]) = "success"
             => LET handed == HandedOut(DictGet(JsonValue(cresp'[c][1]), PyStr("return")))
                IN  /\ Len(handed) = table'.count - table.count
                    /\ \A i \in DOMAIN handed : handed[i] = ToString(table.count + i)]_vars

\* the object created under reference 1 was stored again under 2 and 3,
\* and all three resolve to it
C21_Witness ==
    /\ table.count = 3
    /\ table.vars["2"] = table.vars["1"] /\ table.vars["3"] = table.vars["1"]
    /\ \E c \in Clients :
          cout[c] = Returned(PyList(<<RemoteVar(PyStr("2")), RemoteVar(PyStr("3"))>>))

\* the Command client c has sent names a target the registry does not have,
\* a member its target does not have, or a reference id not in the table
Rejected(c) ==
    /\ cpc[c] \in {"attribute_sent", "function_sent"}
    /\ \/ ccall[c].target \notin DOMAIN target_classes
       \/ /\ ccall[c].target \in DOMAIN target_classes
          /\ ccall[c].function \notin DOMAIN target_classes[ccall[c].target].attrs
       \/ /\ cpc[c] = "function_sent"
          /\ \E i \in DOMAIN ccall[c].args :
                /\ ccall[c].args[i].k = "RemoteVar"
                /\ ccall[c].args[i].v.v \notin DOMAIN table.vars

\* a tagged null, boolean, integer, float or string
PlainTagged(x) ==
    /\ x.k = "dict"
    /\ DictGetDefault(x, "type", PyNone) \in
          {PyStr(t) : t \in {"NoneType", "bool", "int", "float", "str"}}

\* a return value that is the 'callable' sentinel, a tagged primitive or
\* null, or a list of these
PlainReturn(ret) ==
    \/ ret = CallableSentinel
    \/ PlainTagged(ret)
    \/ ret.k = "list" /\ \A i \in DOMAIN ret.v : PlainTagged(ret.v[i])

\* C22: once the server is constructed no step changes the Target Registry;
\* the handling of a Command that names an unknown target, an unknown member
\* or an unknown reference id is answered by an exception Response and leaves
\* the Reference Table and its counter as they were, and so does the handling
\* of a Command answered by the 'callable' sentinel, a primitive, null or a
\* list of primitives; the table changes only in a step that answers with a
\* success Response handing out a reference.
C22_DispatchFrame ==
    [][/\ server_up => target_classes' = target_classes
       /\ \A c \in Clients :
             cpc[c] \in Sent /\ cpc'[c] \in Answered =>
                /\ Rejected(c) => StatusOf(cresp'[c]) = "exception" /\ table' = table
                /\ /\ StatusOf(cresp'[c]) = "success"
                   /\ PlainReturn(DictGet(JsonValue(cresp'[c][1]), PyStr("return")))
                   => table' = table
       /\ server_up /\ table' # table =>
             \E c \in Clients :
                /\ cpc[c] \in Sent /\ cpc'[c] \in Answered
                /\ StatusOf(cresp'[c]) = "success"
                /\ HandedOut(DictGet(JsonValue(cresp'[c][1]), PyStr("return"))) # <<>>]_vars

\* with a reference in the table, one client was answered a list of
\* primitives and the other was rejected for an unknown reference id
C22_Witness ==
    /\ table.count = 1
    /\ \E c, d \in Clients :
          /\ cpc[c] = "attribute_answered" /\ ccall[c].function = "VALUES"
          /\ StatusOf(cresp[c]) = "success"
          /\ ReturnOf(c).k = "list"
          /\ cpc[d] = "function_answered" /\ ccall[d].function = "get_co"
          /\ ccall[d].args = <<RemoteVar(PyStr("9"))>>
          /\ StatusOf(cresp[d]) = "exception"

C24_FailedConstructionChangesNothing ==
    [][\A caller \in Callers, exe \in ExePaths \cup {None}, py \in PyPaths \cup {None} :
          Acquire(caller, exe, py) /\ outcome'.exc = "ValueError" =>
             UNCHANGED <<instances, server_exe, server_py, process, references>>]_vars

\* C25: an acquire that raises FileNotFoundError leaves every holder set and
\* every process as it was; the caller is a holder of the object registered
\* for the paths only if it was one before, and that object's process is not
\* alive.
C25_FailedLaunchHoldsNothing ==
    [][\A caller \in Callers, exe \in ExePaths \cup {None}, py \in PyPaths \cup {None} :
          Acquire(caller, exe, py) /\ outcome'.exc = "FileNotFoundError" =>
             /\ references' = references
             /\ process' = process
             /\ Constructed(exe, py) \in Objects =>
                   /\ caller \in references'[Constructed(exe, py)] =>
                         caller \in references[Constructed(exe, py)]
                   /\ ~Alive(process'[Constructed(exe, py)])]_vars

\* an acquire for other.exe has just raised FileNotFoundError: the object
\* is registered, has no holder and no process
C25_Witness ==
    /\ outcome.op = "acquire" /\ outcome.exc = "FileNotFoundError"
    /\ \E o \in Objects :
          /\ instances["other.exe"] = o /\ server_exe[o] = "other.exe"
          /\ references[o] = {}
          /\ process[o] = "none"

\* C26 as claimed: an acquire that succeeds on an object whose process the
\* Supervisor has signalled to terminate, exited or not, leaves the object
\* with a running process that was not signalled, and its caller a holder.
C26_AcquireAfterTerminate ==
    [][\A caller \in Callers, exe \in ExePaths \cup {None}, py \in PyPaths \cup {None} :
          /\ Acquire(caller, exe, py) /\ outcome'.exc = "none"
          /\ process[Constructed(exe, py)] \in {"terminating", "exited"}
          => /\ process'[Constructed(exe, py)] = "running"
             /\ caller \in references'[Constructed(exe, py)]]_vars

\* C27 as claimed: a run_server call that raised ValueError for want of an
\* address leaves the global `server` unset, and the run_server call after
\* it, made with an address, serves and does not raise RuntimeError.
C27_RejectedStartCanBeRetried ==
    [][/\ run_out' = "ValueError" => ~server_up'
       /\ run_out = "ValueError" /\ run_out' # run_out => run_out' = "serving"]_vars

====
